---- MODULE Spec2Model ----
(***************************************************************************)
(* Kortex backend: the shadow-validated remediation workflow               *)
(* (app/services/workflow_service.py), the vcluster shadow environment     *)
(* manager (app/adapters/simulation_adapter.py) and the scan engine        *)
(* (app/services/scan_service.py), as state machines over the asyncio      *)
(* event loop: one action per stretch of code between two awaits, split    *)
(* further so that no action assigns the status twice.                     *)
(***************************************************************************)
EXTENDS Integers, Sequences, FiniteSets, TLC

\* ------------------------------------------------------------------ bounds
\* Number of start_fix_workflow calls explored.
MaxWorkflows == 1

\* Number of start_global_scan calls explored.
MaxScans == 2
\* Largest number of issues one AI call returns.
MaxIssues == 2
\* Largest resourceVersion a resource of the cluster reaches (they start at 1).
MaxVersion == 2
\* Number of restarts explored.
MaxRestarts == 1
\* Number of lines the audit log grows to.
MaxEntries == 3

\* ------------------------------------------------------- program constants
\* simulation_adapter.py:122  for i in range(30)
PollAttempts == 30
\* workflow_service.py:86  for i in range(10)
ConnectAttempts == 10

\* scan_service.py:145  if len(logs) > 1000
LogCap == 1000

Workflows == 1..MaxWorkflows
Scans == 1..MaxScans

\* Cluster ids a caller may pass; only those in cluster_registry are connected.
ClusterIds == {"prod", "gone"}

\* ---------------------------------------------------------------- variables
VARIABLES
  workflow_store,  \* workflow_service.py:11   id -> state dict
  cluster_registry,\* main.py:43               ids of the active connections
  pc,              \* where each workflow task is suspended / about to resume
  i,               \* the loop index of the poll loop or the connectivity loop
  exc,             \* the exception in flight in _run_workflow ("" = none)
  running,         \* the task that holds the event loop (0 = the loop is free)
  bg_processes,    \* simulation_adapter.py:26  shadow name -> Popen
  proc,            \* state of each shadow's `vcluster connect` process
  descriptor,      \* state of each shadow's kubeconfig file
  vclusters,       \* shadow clusters that exist in the host cluster
  trace,           \* per workflow: what was called and observed so far
  scan_store,      \* scan_service.py:16      id -> session dict
  resource_snapshots, \* scan_service.py:24   cluster id -> {unique_id: version}
  scans_file,      \* data/scans.json as last written by _save_scans
  snapshots_file,  \* data/snapshots.json as last written by _save_scans
  cluster_rv,      \* the resourceVersion of each resource in the cluster
  spc,             \* where each scan task is suspended
  slocal,          \* the local variables of each _run_scan call
  stopping,        \* the scans a stop_scan call is awaiting the task of
  strace,          \* per scan: what the AI returned and what was called
  boots,           \* how many times the process has been restarted
  log_exists,      \* audit_adapter.py:12  whether the file at log_path exists
  audit_log,       \* the lines of the file at log_path, in order
  tampered,        \* the entry somebody altered in the file and the length
                   \* of the log at that time (0, 0: nobody has)
  built            \* the KubernetesResource object constructed last

wvars == <<workflow_store, cluster_registry, pc, i, exc, running,
           bg_processes, proc, descriptor, vclusters, trace>>

svars == <<scan_store, resource_snapshots, scans_file, snapshots_file,
           cluster_rv, spc, slocal, stopping, strace, boots>>

avars == <<log_exists, audit_log, tampered>>

dvars == <<built>>

vars == <<wvars, svars, avars, dvars>>

\* ------------------------------------------------------------------ strings
\* A summary is named by a string; Text gives its characters.
Summaries == {"Issue resolved.", "High risk remains", "CRITICAL flaw",
              "Highly stable", "Analysis failed: Invalid JSON output from AI."}

Text(s) ==
  CASE s = "" -> <<>>
    [] s = "Issue resolved." ->
         <<"I", "s", "s", "u", "e", " ", "r", "e", "s", "o", "l", "v", "e", "d", ".">>
    [] s = "High risk remains" ->
         <<"H", "i", "g", "h", " ", "r", "i", "s", "k", " ", "r", "e", "m", "a", "i", "n", "s">>
    [] s = "CRITICAL flaw" ->
         <<"C", "R", "I", "T", "I", "C", "A", "L", " ", "f", "l", "a", "w">>
    [] s = "Highly stable" ->
         <<"H", "i", "g", "h", "l", "y", " ", "s", "t", "a", "b", "l", "e">>
    [] s = "Analysis failed: Invalid JSON output from AI." ->
         <<"A", "n", "a", "l", "y", "s", "i", "s", " ", "f", "a", "i", "l", "e", "d", ":",
           " ", "I", "n", "v", "a", "l", "i", "d", " ", "J", "S", "O", "N", " ", "o", "u",
           "t", "p", "u", "t", " ", "f", "r", "o", "m", " ", "A", "I", ".">>

UpperAlpha == <<"A", "B", "C", "D", "E", "F", "G", "H", "I", "J", "K", "L", "M",
                "N", "O", "P", "Q", "R", "S", "T", "U", "V", "W", "X", "Y", "Z">>
LowerAlpha == <<"a", "b", "c", "d", "e", "f", "g", "h", "i", "j", "k", "l", "m",
                "n", "o", "p", "q", "r", "s", "t", "u", "v", "w", "x", "y", "z">>

\* str.lower() on one character
LowerChar(c) ==
  IF \E k \in 1..26 : UpperAlpha[k] = c
    THEN LowerAlpha[CHOOSE k \in 1..26 : UpperAlpha[k] = c]
    ELSE c

\* str.lower()
Lower(cs) == [k \in 1..Len(cs) |-> LowerChar(cs[k])]

\* needle in hay
Contains(hay, needle) ==
  \E k \in 1..(Len(hay) - Len(needle) + 1) :
     SubSeq(hay, k, k + Len(needle) - 1) = needle

\* The structured issue lists an analysis returns next to its summary: none,
\* or one issue of severity CRITICAL.
VIssueLists == {<<>>, <<[title |-> "Privileged container", severity |-> "CRITICAL"]>>}

\* A gate that looks for one keyword only.
GateTripsOnlyCritical(v_analysis) ==
  Contains(Lower(Text(v_analysis.summary)), <<"c", "r", "i", "t", "i", "c", "a", "l">>)

\* A gate that also trips on a HIGH or CRITICAL entry of the issue list.
GateTripsOnIssues(v_analysis) ==
  \/ Contains(Lower(Text(v_analysis.summary)), <<"h", "i", "g", "h">>)
  \/ Contains(Lower(Text(v_analysis.summary)), <<"c", "r", "i", "t", "i", "c", "a", "l">>)
  \/ \E k \in DOMAIN v_analysis.issues :
        v_analysis.issues[k].severity \in {"HIGH", "CRITICAL"}

\* workflow_service.py:147  the "Basic Gate": only v_analysis.summary is read
GateTrips(v_analysis) ==
  \/ Contains(Lower(Text(v_analysis.summary)), <<"h", "i", "g", "h">>)
  \/ Contains(Lower(Text(v_analysis.summary)), <<"c", "r", "i", "t", "i", "c", "a", "l">>)

\* --------------------------------------------------------------- statuses
\* The status strings of the code, in the order _run_workflow assigns them.
\* (spec names: initializing, creating_shadow, analyzing, applying_shadow,
\*  validating_shadow, applying_real, validating_real, completed)
PhaseOrder == <<"initializing", "step_1_create_vcluster", "step_2_analysis",
                "step_3_apply_vcluster", "step_4_validate_vcluster",
                "step_5_apply_real", "step_6_final_validate", "completed">>

Terminal == {"completed", "failed"}

\* ---------------------------------------------------------------- helpers
\* the closure log(msg) of _run_workflow
Log(st, text, arg) ==
  [st EXCEPT !.logs = Append(@, [text |-> text, arg |-> arg])]

\* A status assignment that passes over step_4_validate_vcluster.
SetStatusSkips(st, s) ==
  [st EXCEPT !.status = IF s = "step_4_validate_vcluster"
                          THEN "step_5_apply_real" ELSE s]

\* state["status"] = s
SetStatus(st, s) == [st EXCEPT !.status = s]

Hist(tr, s) == [tr EXCEPT !.hist = Append(@, s)]

\* What the trace of a workflow records, beside the program's own state:
\*   hist              the statuses assigned to state["status"], in order
\*   create_returned   create_shadow_env calls that returned a Cluster
\*   destroy_calls     destroy_shadow_env calls made
\*   destroy_returned  destroy_shadow_env calls that returned normally
\*   shadow_applied    apply_manifest in the shadow environment returned True
\*   real_apply_calls  apply_manifest calls made on the real cluster
\*   real_applied      apply_manifest on the real cluster returned True
\*   gate_summary      the summary the gate looked at ("" before the gate)
\*   gate_issues       the issue list returned with that summary
\*   callbacks         what each on_workflow_complete call saw
\*   faults            some external call failed or found something missing
\*   window_expired    the poll loop ran out with the descriptor not ready
\*   raised_in         the status in which an exception reached the handler
NoTrace ==
  [hist |-> <<>>, create_returned |-> 0, destroy_calls |-> 0,
   destroy_returned |-> 0, shadow_applied |-> FALSE, real_apply_calls |-> 0,
   real_applied |-> FALSE, gate_summary |-> "", gate_issues |-> <<>>,
   callbacks |-> <<>>,
   faults |-> FALSE, window_expired |-> FALSE, raised_in |-> ""]

Fault(tr, bad) == [tr EXCEPT !.faults = @ \/ bad]

\* An exception raised inside the try block and not caught on the way.
RaisedPastHandler(w, e) ==
  /\ exc' = [exc EXCEPT ![w] = e]
  /\ pc' = [pc EXCEPT ![w] = "finally"]
  /\ running' = w

\* An exception raised inside the try block: control goes to the handler at
\* line 179 without yielding the loop.
Raised(w, e) ==
  /\ exc' = [exc EXCEPT ![w] = e]
  /\ pc' = [pc EXCEPT ![w] = "except"]
  /\ running' = w

\* if "vcluster_id" in state and state["vcluster_id"]   (0 stands for a missing
\* key and for None: both are falsy)
NeverCleansUp(st) == FALSE

NeedsCleanup(st) == st.vcluster_id # 0

\* A cleanup error that also fails the workflow.
CleanupErrorFails(st, err) ==
  SetStatus(Log(st, "Warning during cleanup", err), "failed")

\* workflow_service.py:194-195  except Exception as cleanup_err: log(...)
CleanupError(st, err) == Log(st, "Warning during cleanup", err)

\* self.on_workflow_complete(workflow_id, state): main.on_workflow_complete
\* reads the status; the trace keeps what it saw and whether the shadow
\* environment had been destroyed by then.
Callback(tr, st) ==
  [tr EXCEPT !.callbacks =
     Append(@, [status |-> st.status,
                destroyed |-> (tr.create_returned = tr.destroy_returned)])]

\* ------------------------------------------------ workflow: start and step 1
\* FixWorkflowService.start_fix_workflow: the record is stored and the task is
\* scheduled; the caller (a request handler) runs when the loop is free.
start_fix_workflow(w, cluster_id) ==
  /\ running = 0
  /\ pc[w] = "idle"
  /\ \A v \in Workflows : v < w => pc[v] # "idle"
  /\ workflow_store' =
       [x \in DOMAIN workflow_store \cup {w} |->
          IF x = w
            THEN [id |-> w, cluster_id |-> cluster_id, status |-> "initializing",
                  logs |-> <<[text |-> "Workflow initialized. Starting Process...",
                              arg |-> ""]>>,
                  vcluster_id |-> 0, remediation |-> "", final_analysis |-> ""]
            ELSE workflow_store[x]]
  /\ pc' = [pc EXCEPT ![w] = "created"]
  /\ trace' = [trace EXCEPT ![w] = Hist(@, "initializing")]
  /\ UNCHANGED <<cluster_registry, i, exc, running, bg_processes, proc,
                 descriptor, vclusters>>
  /\ UNCHANGED svars
  /\ UNCHANGED avars
  /\ UNCHANGED dvars

\* _run_workflow lines 44-79: registry lookup, status step 1, and the call of
\* create_shadow_env up to its first await (the `vcluster create` subprocess).
RunLookup(w) ==
  /\ running = 0
  /\ pc[w] = "created"
  /\ LET st == workflow_store[w]
         tr == Fault(trace[w], st.cluster_id \notin cluster_registry)
         st2 == Log(SetStatus(st, "step_1_create_vcluster"),
                    "Step 1: Creating VCluster environment inside target cluster...", "")
     IN IF st.cluster_id \notin cluster_registry
          THEN /\ Raised(w, "Target cluster disconnected or not found in registry")
               /\ trace' = [trace EXCEPT ![w] = [tr EXCEPT !.raised_in = st.status]]
               /\ UNCHANGED workflow_store
          ELSE /\ workflow_store' = [workflow_store EXCEPT ![w] = st2]
               /\ trace' = [trace EXCEPT ![w] = Hist(tr, st2.status)]
               /\ pc' = [pc EXCEPT ![w] = "await_create_cmd"]
               /\ UNCHANGED <<exc, running>>
  /\ UNCHANGED <<cluster_registry, i, bg_processes, proc, descriptor, vclusters>>
  /\ UNCHANGED svars
  /\ UNCHANGED avars
  /\ UNCHANGED dvars

\* create_shadow_env lines 69-91: the create command returns; a non-zero
\* return code or the 300 s subprocess timeout raises, otherwise the namespace
\* annotation is awaited.
CreateCmdReturns(w) ==
  /\ running = 0
  /\ pc[w] = "await_create_cmd"
  /\ \E rc \in {"zero", "nonzero", "TimeoutExpired"} :
       LET tr == Fault(trace[w], rc # "zero") IN
       IF rc = "zero"
         THEN /\ vclusters' = vclusters \cup {w}
              /\ pc' = [pc EXCEPT ![w] = "await_annotate"]
              /\ trace' = [trace EXCEPT ![w] = tr]
              /\ UNCHANGED <<exc, running>>
         ELSE /\ Raised(w, IF rc = "nonzero" THEN "Failed to create shadow cluster"
                                             ELSE "TimeoutExpired")
              /\ trace' = [trace EXCEPT ![w] =
                   [tr EXCEPT !.raised_in = workflow_store[w].status]]
              /\ UNCHANGED vclusters
  /\ UNCHANGED <<workflow_store, cluster_registry, i, bg_processes, proc, descriptor>>
  /\ UNCHANGED svars
  /\ UNCHANGED avars
  /\ UNCHANGED dvars

\* create_shadow_env lines 91-119: the annotation returned (its result is not
\* looked at); the connect tunnel is spawned and registered.
PopenConnect(w) ==
  /\ running = 0
  /\ pc[w] = "await_annotate"
  /\ proc' = [proc EXCEPT ![w] = "running"]
  /\ bg_processes' = bg_processes \cup {w}
  /\ i' = [i EXCEPT ![w] = 0]
  /\ pc' = [pc EXCEPT ![w] = "poll"]
  /\ running' = w
  /\ UNCHANGED <<workflow_store, cluster_registry, exc, descriptor, vclusters, trace>>
  /\ UNCHANGED svars
  /\ UNCHANGED avars
  /\ UNCHANGED dvars

\* os.path.exists(f) and os.path.getsize(f) > 0
DescriptorReady(d) == d = "ready"

\* os.path.exists(f)
DescriptorExists(d) == d # "absent"

\* create_shadow_env lines 122-141: the head of one loop iteration, and, when
\* the loop is left (break, or 30 iterations done), the check of line 132 and
\* the return of the Cluster.
PollIter(w) ==
  /\ running = w
  /\ pc[w] = "poll"
  /\ IF i[w] < PollAttempts /\ ~DescriptorReady(descriptor[w])
       THEN \* await asyncio.sleep(1)
            /\ pc' = [pc EXCEPT ![w] = "poll_sleep"]
            /\ running' = 0
            /\ UNCHANGED <<exc, proc, trace>>
       ELSE LET expired == descriptor[w] # "ready"
                tr == [Fault(trace[w], expired) EXCEPT !.window_expired = expired]
            IN IF ~DescriptorExists(descriptor[w])
                 THEN /\ proc' = [proc EXCEPT ![w] = "killed"]
                      /\ Raised(w, "Timed out waiting for vcluster kubeconfig generation")
                      /\ trace' = [trace EXCEPT ![w] =
                           [tr EXCEPT !.raised_in = workflow_store[w].status]]
                 ELSE /\ pc' = [pc EXCEPT ![w] = "create_returned"]
                      /\ trace' = [trace EXCEPT ![w] =
                           [tr EXCEPT !.create_returned = @ + 1]]
                      /\ UNCHANGED <<exc, running, proc>>
  /\ UNCHANGED <<workflow_store, cluster_registry, i, bg_processes, descriptor, vclusters>>
  /\ UNCHANGED svars
  /\ UNCHANGED avars
  /\ UNCHANGED dvars

\* What the tunnel process may have done to its kubeconfig file during one
\* sleep: nothing, created it (possibly still empty), or filled it.
DescriptorAfter(d) ==
  CASE d = "absent" -> {"absent", "empty", "ready"}
    [] d = "empty" -> {"empty", "ready"}
    [] d = "ready" -> {"ready"}

\* create_shadow_env lines 126-130: the sleep is over.  The tunnel process runs
\* outside the event loop; what it did meanwhile is seen here: proc.poll()
\* finds it dead (which raises), or it is alive and the file is as it left it.
PollWake(w) ==
  /\ running = 0
  /\ pc[w] = "poll_sleep"
  /\ \E alive \in BOOLEAN, d \in DescriptorAfter(descriptor[w]) :
       IF ~alive
         THEN /\ d = descriptor[w]
              /\ proc' = [proc EXCEPT ![w] = "exited"]
              /\ Raised(w, "VCluster connect process died unexpectedly")
              /\ trace' = [trace EXCEPT ![w] =
                   [Fault(@, TRUE) EXCEPT !.raised_in = workflow_store[w].status]]
              /\ i' = [i EXCEPT ![w] = 0]
              /\ UNCHANGED descriptor
         ELSE /\ descriptor' = [descriptor EXCEPT ![w] = d]
              /\ i' = [i EXCEPT ![w] = @ + 1]
              /\ pc' = [pc EXCEPT ![w] = "poll"]
              /\ running' = w
              /\ UNCHANGED <<exc, trace, proc>>
  /\ UNCHANGED <<workflow_store, cluster_registry, bg_processes, vclusters>>
  /\ UNCHANGED svars
  /\ UNCHANGED avars
  /\ UNCHANGED dvars

\* ------------------------------------------- workflow: connecting to the shadow
\* _run_workflow lines 79-84: create_shadow_env returned; the id is recorded
\* and a KubernetesAdapter is built on the shadow kubeconfig.
\* k8s_adapter.py:25-26 loads the file when it exists: a file that is still
\* empty makes load_kube_config raise.
CreateReturned(w) ==
  /\ running = w
  /\ pc[w] = "create_returned"
  /\ workflow_store' = [workflow_store EXCEPT ![w] =
       Log([@ EXCEPT !.vcluster_id = w], "VCluster created successfully with isolation.", "")]
  /\ IF descriptor[w] = "empty"
       THEN /\ Raised(w, "ConfigException: Invalid kube-config file")
            /\ trace' = [trace EXCEPT ![w] =
                 [Fault(@, TRUE) EXCEPT !.raised_in = workflow_store[w].status]]
       ELSE /\ pc' = [pc EXCEPT ![w] = "connect"]
            /\ UNCHANGED <<exc, running, trace>>
  /\ i' = [i EXCEPT ![w] = 0]
  /\ UNCHANGED <<cluster_registry, bg_processes, proc, descriptor, vclusters>>
  /\ UNCHANGED svars
  /\ UNCHANGED avars
  /\ UNCHANGED dvars

\* KubernetesAdapter.check_connection (k8s_adapter.py:34-40): True, or False
\* on any error.
CheckConnection(w) == BOOLEAN

\* _run_workflow lines 86-90: one iteration of the connectivity loop.
ConnectIter(w) ==
  /\ running = w
  /\ pc[w] = "connect"
  /\ IF i[w] < ConnectAttempts
       THEN \E ok \in CheckConnection(w) :
              IF ok
                THEN /\ pc' = [pc EXCEPT ![w] = "connect_final"]
                     /\ UNCHANGED <<workflow_store, running, trace>>
                ELSE /\ workflow_store' = [workflow_store EXCEPT ![w] =
                          Log(@, "Waiting for vcluster connectivity...", "")]
                     /\ trace' = [trace EXCEPT ![w] = Fault(@, TRUE)]
                     /\ pc' = [pc EXCEPT ![w] = "connect_sleep"]
                     /\ running' = 0
       ELSE /\ pc' = [pc EXCEPT ![w] = "connect_final"]
            /\ UNCHANGED <<workflow_store, running, trace>>
  /\ UNCHANGED <<cluster_registry, i, exc, bg_processes, proc, descriptor, vclusters>>
  /\ UNCHANGED svars
  /\ UNCHANGED avars
  /\ UNCHANGED dvars

\* _run_workflow line 90: await asyncio.sleep(2) is over.
ConnectWake(w) ==
  /\ running = 0
  /\ pc[w] = "connect_sleep"
  /\ i' = [i EXCEPT ![w] = @ + 1]
  /\ pc' = [pc EXCEPT ![w] = "connect"]
  /\ running' = w
  /\ UNCHANGED <<workflow_store, cluster_registry, exc, bg_processes, proc,
                 descriptor, vclusters, trace>>
  /\ UNCHANGED svars
  /\ UNCHANGED avars
  /\ UNCHANGED dvars

\* _run_workflow lines 92-110: the last connectivity check, then step 2 up to
\* the await of generate_remediation.  target_adapter.list_resources() swallows
\* its own errors (k8s_adapter.py:46-52); the target resource is in the list
\* or not.
ConnectFinal(w) ==
  /\ running = w
  /\ pc[w] = "connect_final"
  /\ \E ok \in CheckConnection(w), found \in BOOLEAN :
       LET st == workflow_store[w]
           st2 == Log(SetStatus(Log(st, "VCluster Connected.", ""), "step_2_analysis"),
                      "Step 2: Analyzing resource and generating AI fix...", "")
       IN IF ~ok
            THEN /\ found
                 /\ Raised(w, "Could not connect to VCluster after creation")
                 /\ trace' = [trace EXCEPT ![w] =
                      [Fault(@, TRUE) EXCEPT !.raised_in = st.status]]
                 /\ UNCHANGED workflow_store
            ELSE /\ workflow_store' = [workflow_store EXCEPT ![w] = st2]
                 /\ IF ~found
                      THEN /\ Raised(w, "Resource not found in target cluster")
                           /\ trace' = [trace EXCEPT ![w] =
                                [Fault(Hist(@, st2.status), TRUE)
                                   EXCEPT !.raised_in = st2.status]]
                      ELSE /\ pc' = [pc EXCEPT ![w] = "await_remediation"]
                           /\ running' = 0
                           /\ trace' = [trace EXCEPT ![w] = Hist(@, st2.status)]
                           /\ UNCHANGED exc
  /\ i' = [i EXCEPT ![w] = 0]
  /\ UNCHANGED <<cluster_registry, bg_processes, proc, descriptor, vclusters>>
  /\ UNCHANGED svars
  /\ UNCHANGED avars
  /\ UNCHANGED dvars

\* ------------------------------------------------- workflow: steps 3 and 4
\* ClusterProviderPort.apply_manifest: True, False (the port's contract) or an
\* exception (k8s_adapter.py:122-131 raises when kubectl fails).
ApplyResults == {"True", "False", "raise"}

\* A check that lets a returned True fail and a returned False pass.
ApplyOkInverted(res) == res = "False"

\* workflow_service.py:125-127 and 157-159: `if not success: raise`
ApplyOk(res) == res = "True"

\* _run_workflow lines 107-129: generate_remediation returned (it never
\* raises: llm_adapter.py:309-317 falls back to the original manifest);
\* status step 3 and the apply inside the shadow environment.
RemediationReturns(w) ==
  /\ running = 0
  /\ pc[w] = "await_remediation"
  /\ \E r \in {"generated", "fallback"}, res \in ApplyResults :
       LET st == workflow_store[w]
           st2 == Log(SetStatus([Log(st, "AI Generated Remediation", r)
                                   EXCEPT !.remediation = r],
                                "step_3_apply_vcluster"),
                      "Step 3: Applying fix to VCluster for validation...", "")
           tr == [Fault(Hist(trace[w], st2.status), r = "fallback" \/ res # "True")
                    EXCEPT !.shadow_applied = (res = "True")]
       IN IF res = "raise" \/ ~ApplyOk(res)
            THEN /\ workflow_store' = [workflow_store EXCEPT ![w] = st2]
                 /\ Raised(w, "Failed to apply fix to VCluster")
                 /\ trace' = [trace EXCEPT ![w] = [tr EXCEPT !.raised_in = st2.status]]
            ELSE /\ workflow_store' = [workflow_store EXCEPT ![w] =
                      Log(st2, "Fix applied to VCluster. Running validation scan...", "")]
                 /\ trace' = [trace EXCEPT ![w] = tr]
                 /\ pc' = [pc EXCEPT ![w] = "enter_step4"]
                 /\ running' = w
                 /\ UNCHANGED exc
  /\ UNCHANGED <<cluster_registry, i, bg_processes, proc, descriptor, vclusters>>
  /\ UNCHANGED svars
  /\ UNCHANGED avars
  /\ UNCHANGED dvars

\* _run_workflow lines 132-133: status step 4, then the settle delay.
EnterStep4(w) ==
  /\ running = w
  /\ pc[w] = "enter_step4"
  /\ LET st2 == SetStatus(workflow_store[w], "step_4_validate_vcluster") IN
       /\ workflow_store' = [workflow_store EXCEPT ![w] = st2]
       /\ trace' = [trace EXCEPT ![w] = Hist(@, st2.status)]
  /\ pc' = [pc EXCEPT ![w] = "settle_shadow"]
  /\ running' = 0
  /\ UNCHANGED <<cluster_registry, i, exc, bg_processes, proc, descriptor, vclusters>>
  /\ UNCHANGED svars
  /\ UNCHANGED avars
  /\ UNCHANGED dvars

\* _run_workflow lines 135-142: the shadow's resources are listed again (a
\* missing resource is only a warning) and the safety analysis is awaited.
SettleShadowWake(w) ==
  /\ running = 0
  /\ pc[w] = "settle_shadow"
  /\ \E found \in BOOLEAN :
       /\ workflow_store' = [workflow_store EXCEPT ![w] =
            IF found THEN @
            ELSE Log(@, "Warning: Resource not found in VCluster after apply. Check Namespace?", "")]
       /\ trace' = [trace EXCEPT ![w] = Fault(@, ~found)]
  /\ pc' = [pc EXCEPT ![w] = "await_v_analysis"]
  /\ UNCHANGED <<cluster_registry, i, exc, running, bg_processes, proc,
                 descriptor, vclusters>>
  /\ UNCHANGED svars
  /\ UNCHANGED avars
  /\ UNCHANGED dvars

\* ------------------------------------------------- workflow: steps 5 and 6
\* The summaries analyze_context returns when the AI call failed or its output
\* could not be parsed (llm_adapter.py:87 and 125).
DegradedSummaries == {"Analysis failed: Invalid JSON output from AI."}

\* _run_workflow lines 142-161: analyze_context returned (it never raises:
\* llm_adapter.py:83-87 and 123-125 return a degraded result); the gate; status
\* step 5 and the apply on the real cluster.
VAnalysisReturns(w) ==
  /\ running = 0
  /\ pc[w] = "await_v_analysis"
  /\ \E summary \in Summaries, issues \in VIssueLists, res \in ApplyResults :
       LET v_analysis == [summary |-> summary, issues |-> issues]
           st == Log(workflow_store[w], "VCluster Safety Analysis", summary)
           tr == [Fault(trace[w], summary \in DegradedSummaries)
                    EXCEPT !.gate_summary = summary, !.gate_issues = issues]
           st2 == Log(SetStatus(Log(st, "VCluster validation PASSED. Proceeding to Real Cluster...", ""),
                                "step_5_apply_real"),
                      "Step 5: Applying fix to Production/Real Cluster...", "")
           tr2 == [Fault(Hist(tr, st2.status), res # "True")
                     EXCEPT !.real_apply_calls = @ + 1,
                            !.real_applied = (res = "True")]
       IN IF GateTrips(v_analysis)
            THEN /\ res = "True"
                 /\ workflow_store' = [workflow_store EXCEPT ![w] =
                      Log(st, "VCluster validation flagged potential issues. Aborting real deployment.", "")]
                 /\ Raised(w, "VCluster validation failed due to high severity risks detected.")
                 /\ trace' = [trace EXCEPT ![w] = [tr EXCEPT !.raised_in = st.status]]
            ELSE IF res = "raise" \/ ~ApplyOk(res)
              THEN /\ workflow_store' = [workflow_store EXCEPT ![w] = st2]
                   /\ Raised(w, "Failed to apply to Real Cluster")
                   /\ trace' = [trace EXCEPT ![w] = [tr2 EXCEPT !.raised_in = st2.status]]
              ELSE /\ workflow_store' = [workflow_store EXCEPT ![w] =
                        Log(st2, "Fix applied to Real Cluster. Final Validation...", "")]
                   /\ trace' = [trace EXCEPT ![w] = tr2]
                   /\ pc' = [pc EXCEPT ![w] = "enter_step6"]
                   /\ running' = w
                   /\ UNCHANGED exc
  /\ UNCHANGED <<cluster_registry, i, bg_processes, proc, descriptor, vclusters>>
  /\ UNCHANGED svars
  /\ UNCHANGED avars
  /\ UNCHANGED dvars

\* _run_workflow lines 164-165: status step 6, then the settle delay.
EnterStep6(w) ==
  /\ running = w
  /\ pc[w] = "enter_step6"
  /\ LET st2 == SetStatus(workflow_store[w], "step_6_final_validate") IN
       /\ workflow_store' = [workflow_store EXCEPT ![w] = st2]
       /\ trace' = [trace EXCEPT ![w] = Hist(@, st2.status)]
  /\ pc' = [pc EXCEPT ![w] = "settle_real"]
  /\ running' = 0
  /\ UNCHANGED <<cluster_registry, i, exc, bg_processes, proc, descriptor, vclusters>>
  /\ UNCHANGED svars
  /\ UNCHANGED avars
  /\ UNCHANGED dvars

\* _run_workflow lines 167-170: the real cluster is listed again and
\* analyze_resource(final_res, ...) is called.  final_res is None when the
\* target is no longer listed, and llm_adapter.py:134 calls target.dict()
\* before its try block: that AttributeError reaches _run_workflow.
SettleRealWake(w) ==
  /\ running = 0
  /\ pc[w] = "settle_real"
  /\ \E present \in BOOLEAN :
       IF present
         THEN /\ pc' = [pc EXCEPT ![w] = "await_final_analysis"]
              /\ UNCHANGED <<exc, running, trace>>
         ELSE /\ Raised(w, "AttributeError: 'NoneType' object has no attribute 'dict'")
              /\ trace' = [trace EXCEPT ![w] =
                   [Fault(@, TRUE) EXCEPT !.raised_in = workflow_store[w].status]]
  /\ UNCHANGED <<workflow_store, cluster_registry, i, bg_processes, proc,
                 descriptor, vclusters>>
  /\ UNCHANGED svars
  /\ UNCHANGED avars
  /\ UNCHANGED dvars

\* _run_workflow lines 170-177: the final analysis returned (degraded when the
\* AI call failed: llm_adapter.py:239-241); status completed; the first call of
\* the completion callback.
FinalAnalysisReturns(w) ==
  /\ running = 0
  /\ pc[w] = "await_final_analysis"
  /\ \E a \in {"analysis", "Analysis failed"} :
       LET st2 == SetStatus(Log(Log([workflow_store[w] EXCEPT !.final_analysis = a],
                                    "Detailed post-fix analysis complete.", ""),
                                "Process Finished Successfully.", ""),
                            "completed")
       IN /\ workflow_store' = [workflow_store EXCEPT ![w] = st2]
          /\ trace' = [trace EXCEPT ![w] =
               Callback(Fault(Hist(@, st2.status), a = "Analysis failed"), st2)]
  /\ pc' = [pc EXCEPT ![w] = "finally"]
  /\ running' = w
  /\ UNCHANGED <<cluster_registry, i, exc, bg_processes, proc, descriptor, vclusters>>
  /\ UNCHANGED svars
  /\ UNCHANGED avars
  /\ UNCHANGED dvars

\* ------------------------------------------- workflow: handler and cleanup
\* _run_workflow lines 179-184: except Exception.
Except(w) ==
  /\ running = w
  /\ pc[w] = "except"
  /\ LET st2 == SetStatus(Log(workflow_store[w], "CRITICAL ERROR", exc[w]), "failed") IN
       /\ workflow_store' = [workflow_store EXCEPT ![w] = st2]
       /\ trace' = [trace EXCEPT ![w] = Hist(@, st2.status)]
  /\ pc' = [pc EXCEPT ![w] = "finally"]
  /\ UNCHANGED <<cluster_registry, i, exc, running, bg_processes, proc,
                 descriptor, vclusters>>
  /\ UNCHANGED svars
  /\ UNCHANGED avars
  /\ UNCHANGED dvars

\* Popen.terminate() on the tunnel: it returns, or raises an OSError.
TerminateResults == {"returns", "OSError"}

\* _run_workflow lines 185-198 with destroy_shadow_env lines 146-150: the id
\* is cleared and the tunnel is sent terminate(); the task then sits in the
\* synchronous proc.wait(timeout=5) of line 151 with the loop still held.  An
\* error of terminate() leaves destroy_shadow_env at once.  Without a
\* registered tunnel the delete command is awaited right away; without a
\* shadow id only the callback runs.
Finally(w) ==
  /\ running = w
  /\ pc[w] = "finally"
  /\ LET st == workflow_store[w] IN
       IF NeedsCleanup(st)
         THEN LET vid == st.vcluster_id
                  st2 == [Log(st, "Automatic Cleanup: Destroying VCluster", "")
                            EXCEPT !.vcluster_id = 0]
                  tr2 == [trace[w] EXCEPT !.destroy_calls = @ + 1]
              IN \E t \in TerminateResults :
                   IF vid \in bg_processes /\ t = "OSError"
                     THEN LET st3 == CleanupError(st2, "OSError") IN
                          /\ workflow_store' = [workflow_store EXCEPT ![w] = st3]
                          /\ trace' = [trace EXCEPT ![w] =
                               Callback(Fault(tr2, TRUE), st3)]
                          /\ pc' = [pc EXCEPT ![w] = "done"]
                          /\ running' = 0
                          /\ UNCHANGED <<bg_processes, proc>>
                     ELSE /\ t = "returns"
                          /\ workflow_store' = [workflow_store EXCEPT ![w] = st2]
                          /\ trace' = [trace EXCEPT ![w] = tr2]
                          /\ IF vid \in bg_processes
                               THEN /\ pc' = [pc EXCEPT ![w] = "wait_tunnel"]
                                    /\ running' = w
                               ELSE /\ pc' = [pc EXCEPT ![w] = "await_delete"]
                                    /\ running' = 0
                          /\ UNCHANGED <<bg_processes, proc>>
         ELSE /\ trace' = [trace EXCEPT ![w] = Callback(@, st)]
              /\ pc' = [pc EXCEPT ![w] = "done"]
              /\ running' = 0
              /\ UNCHANGED <<workflow_store, bg_processes, proc>>
  /\ UNCHANGED <<cluster_registry, i, exc, descriptor, vclusters>>
  /\ UNCHANGED svars
  /\ UNCHANGED avars
  /\ UNCHANGED dvars

\* destroy_shadow_env lines 150-175 up to its await: proc.wait(timeout=5)
\* is over (the tunnel exited, or it is killed after the 5 s grace); the
\* tunnel is unregistered and the delete command is handed to the executor,
\* which is where the task lets go of the loop.
TunnelWaitReturns(w) ==
  /\ running = w
  /\ pc[w] = "wait_tunnel"
  /\ bg_processes' = bg_processes \ {w}
  /\ proc' = [proc EXCEPT ![w] = IF @ = "running" THEN "terminated" ELSE @]
  /\ pc' = [pc EXCEPT ![w] = "await_delete"]
  /\ running' = 0
  /\ UNCHANGED <<workflow_store, cluster_registry, i, exc, descriptor, vclusters, trace>>
  /\ UNCHANGED svars
  /\ UNCHANGED avars
  /\ UNCHANGED dvars

\* destroy_shadow_env lines 162-175 and _run_workflow lines 193-198: the
\* delete command is over.  A non-zero return code is printed and destroy
\* returns normally; an error of the subprocess call itself reaches the
\* workflow's `except Exception as cleanup_err`.  Then the callback.
DeleteReturns(w) ==
  /\ running = 0
  /\ pc[w] = "await_delete"
  /\ \E rc \in {"zero", "nonzero", "OSError"} :
       LET st == workflow_store[w]
           st2 == IF rc = "OSError"
                    THEN CleanupError(st, "OSError")
                    ELSE Log(st, "VCluster destroyed successfully.", "")
           tr2 == [Fault(trace[w], rc # "zero") EXCEPT
                     !.destroy_returned = IF rc = "OSError" THEN @ ELSE @ + 1]
       IN /\ workflow_store' = [workflow_store EXCEPT ![w] = st2]
          /\ trace' = [trace EXCEPT ![w] = Callback(tr2, st2)]
          /\ vclusters' = IF rc = "zero" THEN vclusters \ {w} ELSE vclusters
  /\ pc' = [pc EXCEPT ![w] = "done"]
  /\ UNCHANGED <<cluster_registry, i, exc, running, bg_processes, proc, descriptor>>
  /\ UNCHANGED svars
  /\ UNCHANGED avars
  /\ UNCHANGED dvars

\* FixWorkflowService.get_workflow_status: what a status poll returns.  A poll
\* is a request handler, so it runs only while the loop is free (running = 0).
get_workflow_status(w) ==
  IF w \in DOMAIN workflow_store THEN workflow_store[w] ELSE [status |-> "None"]

\* ------------------------------------------------------- the specification
\* One step of the task of workflow w.
WorkflowTask(w) ==
  \/ RunLookup(w)
  \/ CreateCmdReturns(w)
  \/ PopenConnect(w)
  \/ PollIter(w)
  \/ PollWake(w)
  \/ CreateReturned(w)
  \/ ConnectIter(w)
  \/ ConnectWake(w)
  \/ ConnectFinal(w)
  \/ RemediationReturns(w)
  \/ EnterStep4(w)
  \/ SettleShadowWake(w)
  \/ VAnalysisReturns(w)
  \/ EnterStep6(w)
  \/ SettleRealWake(w)
  \/ FinalAnalysisReturns(w)
  \/ Except(w)
  \/ Finally(w)
  \/ TunnelWaitReturns(w)
  \/ DeleteReturns(w)

WorkflowNext ==
  \/ \E w \in Workflows, c \in ClusterIds : start_fix_workflow(w, c)
  \/ \E w \in Workflows : WorkflowTask(w)

\* ------------------------------------------------------------- scan engine

\* main.py:127  the default ignored_namespaces setting, injected at main.py:423
IgnoredNamespaces == {"kube-system", "kube-public", "monitoring"}

\* ------------------------------------------------------------ domain objects
\* The kinds, names and namespaces resources are built from; None is the
\* namespace of an object whose metadata has none (a cluster-scoped object).
Kinds == {"Pod", "Deployment", "Service", "ConfigMap"}

Names == {"nginx", "web", "cfg", "dns", "api"}

None == "None"

Namespaces == {None, "default", "shop", "kube-system"}

\* domain/models.py:30  unique_id: str = ""  "Populated by adapter"
DefaultUniqueId == ""

\* domain/models.py:20-30  KubernetesResource(...): the fields are stored as
\* given (api_version and content play no part in the model).
KubernetesResource(kind, name, namespace, unique_id) ==
  [kind |-> kind, name |-> name, namespace |-> namespace, unique_id |-> unique_id]

\* No object has been constructed yet.
NoResource == KubernetesResource("", "", "", "")

\* k8s_adapter.py:133-151  _to_domain: a missing namespace becomes "default"
\* and unique_id is formatted from kind, namespace and name.
ToDomain(kind, meta_namespace, meta_name) ==
  LET namespace == IF meta_namespace = None THEN "default" ELSE meta_namespace
  IN KubernetesResource(kind, meta_name, namespace,
                        kind \o "/" \o namespace \o "/" \o meta_name)

\* The adapter converts an object it listed.
to_domain(kind, meta_namespace, meta_name) ==
  /\ built' = ToDomain(kind, meta_namespace, meta_name)
  /\ UNCHANGED <<wvars, svars, avars>>

\* tests/test_domain.py:4-10 and tests/conftest.py:12: a resource constructed
\* directly, without a unique_id argument.
Construct(kind, name, namespace) ==
  /\ built' = KubernetesResource(kind, name, namespace, DefaultUniqueId)
  /\ UNCHANGED <<wvars, svars, avars>>

DomainNext ==
  \/ \E k \in Kinds, ns \in Namespaces, n \in Names : to_domain(k, ns, n)
  \/ \E k \in Kinds, ns \in Namespaces \ {None}, n \in Names : Construct(k, n, ns)

\* What adapter.list_resources returns for the connected cluster, in
\* discovery order (k8s_adapter.py:42-87), each object converted by _to_domain.
ClusterResources ==
  << ToDomain("Deployment", "default", "web"),
     ToDomain("Service", "default", "web"),
     ToDomain("ConfigMap", "shop", "cfg"),
     ToDomain("Pod", "kube-system", "dns") >>

\* The scan types and kind filters a caller passes (main.py:393-395);
\* filters None is the empty tuple.
ScanTypes == {"full", "smart"}
ScanFilters == {<<>>, <<"Deployment">>}

Range(seq) == {seq[k] : k \in DOMAIN seq}

\* d[k] = v on a dict
Put(d, k, v) == [x \in DOMAIN d \cup {k} |-> IF x = k THEN v ELSE d[x]]

\* d.get(k), None being -1
Get(d, k) == IF k \in DOMAIN d THEN d[k] ELSE -1

\* the empty dict
EmptyDict == [x \in {} |-> 0]

\* scan_store holds every session dict the store or a task refers to: field
\* in_store tells whether the dict is still a value of the module's scan_store
\* (clear_cache empties the store, a running task keeps its `state`).
InStore == {s \in DOMAIN scan_store : scan_store[s].in_store}

\* A commit that adds the new tokens to the ones the snapshot holds.
MergeSnapshot(snaps, cluster_id, tokens) ==
  LET old == IF cluster_id \in DOMAIN snaps THEN snaps[cluster_id] ELSE EmptyDict
  IN Put(snaps, cluster_id,
         [u \in DOMAIN old \cup DOMAIN tokens |->
            IF u \in DOMAIN tokens THEN tokens[u] ELSE old[u]])

\* A commit that replaces the snapshot of every cluster, as one shared token
\* map would.
CommitSnapshotShared(snaps, cluster_id, tokens) ==
  [c \in DOMAIN snaps \cup {cluster_id} |-> tokens]

\* self.resource_snapshots[cluster_id] = ..., lines 231 and 311
CommitSnapshot(snaps, cluster_id, tokens) == Put(snaps, cluster_id, tokens)

\* _log_message, lines 136-146: append, then keep the newest LogCap entries.
\* The session is looked up in scan_store by the caller.
LogMessage(st, text, arg) ==
  LET l == Append(st.logs, [text |-> text, arg |-> arg])
  IN IF ~st.in_store THEN st  \* line 138: if scan_id not in scan_store: return
     ELSE [st EXCEPT !.logs = IF Len(l) > LogCap
                                THEN SubSeq(l, Len(l) - LogCap + 1, Len(l))
                                ELSE l]

\* _save_scans, lines 56-62: both files are rewritten from memory (the task
\* handle is not part of the modelled session).
SaveScans(store, snaps) ==
  /\ scans_file' = [s \in {t \in DOMAIN store : store[t].in_store} |-> store[s]]
  /\ snapshots_file' = snaps

NoLocal ==
  [issues_found |-> <<>>, namespaces |-> <<>>, resources_by_ns |-> EmptyDict,
   ns |-> 0, processed_count |-> 0, cancel |-> FALSE]

\* What the trace of a scan records, beside the program's own state:
\*   returned          the issue list each finished AI call returned, in order
\*   ai_calls          analyze_context calls made
\*   ai_raised         the namespaces whose analyze_context call raised
\*   snapshot_before   resource_snapshots when the scan was started
\*   fetched           the version token of every resource the listing returned
\*   rv_at_fetch       the resourceVersion of every resource when it was listed
\*   done_before       the scans whose task had ended when this one was started
\*   commits           assignments this scan made to resource_snapshots
\*   stop_called_at    where the task was when stop_scan was called
\*   stop_returned     stop_scan has returned
\*   ai_calls_at_stop  ai_calls when stop_scan was called
\*   fetch_timed_out   the fetch of the resource set ran into its timeout
NoScanTrace ==
  [returned |-> <<>>, ai_calls |-> 0, snapshot_before |-> EmptyDict,
   ai_raised |-> {},
   fetched |-> EmptyDict, rv_at_fetch |-> EmptyDict, done_before |-> {},
   commits |-> 0, stop_called_at |-> "",
   stop_returned |-> FALSE, ai_calls_at_stop |-> 0, fetch_timed_out |-> FALSE]

\* start_global_scan, lines 64-89.
start_global_scan(s, cluster_id, scan_type, filters) ==
  /\ running = 0
  /\ spc[s] = "idle"
  /\ \A t \in Scans : t < s => spc[t] # "idle"
  /\ LET st == [id |-> s, cluster_id |-> cluster_id, status |-> "initializing",
                type |-> scan_type, filters |-> filters, progress |-> 0,
                logs |-> << [text |-> "Initializing cluster scan...",
                             arg |-> scan_type] >>,
                results |-> [issues |-> <<>>, summary |-> ""],
                total_resources |-> 0, analyzed_resources |-> 0,
                resource_status |-> EmptyDict, resources_list |-> <<>>,
                has_pending_snapshot |-> FALSE, pending_snapshot |-> EmptyDict,
                in_store |-> TRUE]
         store == Put(scan_store, s, st)
     IN /\ scan_store' = store
        /\ SaveScans(store, resource_snapshots)
  /\ spc' = [spc EXCEPT ![s] = "created"]
  /\ strace' = [strace EXCEPT ![s].snapshot_before = resource_snapshots,
                              ![s].done_before = {t \in Scans : spc[t] = "done"}]
  /\ UNCHANGED <<resource_snapshots, cluster_rv, slocal, stopping>>
  /\ UNCHANGED boots
  /\ UNCHANGED avars
  /\ UNCHANGED dvars
  /\ UNCHANGED wvars

\* A handler that logs and saves but leaves the status as it was.
ScanFailedKeepsStatus(s, st, msg) ==
  LET st1 == LogMessage(st, "Scan failed: ", msg)
      store1 == [scan_store EXCEPT ![s] = st1]
  IN /\ SaveScans(store1, resource_snapshots)
     /\ scan_store' = [scan_store EXCEPT ![s] = LogMessage(st1, "Traceback", msg)]
     /\ spc' = [spc EXCEPT ![s] = "done"]

\* The handler of `except Exception`, lines 323-328.
ScanFailed(s, st, msg) ==
  LET st1 == LogMessage([st EXCEPT !.status = "failed"], "Scan failed: ", msg)
      store1 == [scan_store EXCEPT ![s] = st1]
  IN /\ SaveScans(store1, resource_snapshots)
     /\ scan_store' = [scan_store EXCEPT ![s] = LogMessage(st1, "Traceback", msg)]
     /\ spc' = [spc EXCEPT ![s] = "done"]

\* _run_scan lines 149-163: the first step of the task, up to the yield.
ScanBegin(s) ==
  /\ running = 0
  /\ spc[s] = "created"
  /\ ~slocal[s].cancel
  /\ IF ~scan_store[s].in_store
       THEN \* line 150 raises KeyError before the try: the task ends
            /\ spc' = [spc EXCEPT ![s] = "done"]
            /\ UNCHANGED <<scan_store, scans_file, snapshots_file>>
     ELSE IF scan_store[s].cluster_id \notin cluster_registry
       THEN ScanFailed(s, scan_store[s], "Cluster not found or disconnected")
       ELSE /\ spc' = [spc EXCEPT ![s] = "yield"]
            /\ UNCHANGED <<scan_store, scans_file, snapshots_file>>
  /\ UNCHANGED <<resource_snapshots, cluster_rv, slocal, stopping, strace>>
  /\ UNCHANGED boots
  /\ UNCHANGED avars
  /\ UNCHANGED dvars
  /\ UNCHANGED wvars

\* lines 164-172: the yield is over; status fetching_resources, and the
\* listing is started in a thread.
ScanFetch(s) ==
  /\ running = 0
  /\ spc[s] = "yield"
  /\ ~slocal[s].cancel
  /\ scan_store' = [scan_store EXCEPT ![s] =
        LogMessage([@ EXCEPT !.status = "fetching_resources"],
                   "Fetching all cluster resources...", "")]
  /\ spc' = [spc EXCEPT ![s] = "await_fetch"]
  /\ UNCHANGED <<resource_snapshots, scans_file, snapshots_file, cluster_rv,
                 slocal, stopping, strace>>
  /\ UNCHANGED boots
  /\ UNCHANGED avars
  /\ UNCHANGED dvars
  /\ UNCHANGED wvars

\* lines 185-216: the classification loop over all_resources from the k-th
\* on.  acc carries state["resources_list"], state["resource_status"],
\* resources_to_scan, skipped_count and current_snapshot.
\* A test that looks up the name of the resource instead of its namespace.
InIgnoredNamespaceByName(r) == r.name \in IgnoredNamespaces

\* line 203: r.namespace in ignored_namespaces
InIgnoredNamespace(r) == r.namespace \in IgnoredNamespaces

\* A test that takes a resource the snapshot does not know for unchanged.
UnchangedOrUnknown(previous_snapshot, r) ==
  r.unique_id \in DOMAIN previous_snapshot => previous_snapshot[r.unique_id] = r.rv

\* line 209: previous_snapshot.get(r.unique_id) == rv
Unchanged(previous_snapshot, r) == Get(previous_snapshot, r.unique_id) = r.rv

RECURSIVE Classify(_, _, _, _, _, _)
Classify(all, k, scan_type, filters, previous_snapshot, acc) ==
  IF k > Len(all) THEN acc
  ELSE
    LET r == all[k]
        a1 == [acc EXCEPT !.current_snapshot = Put(@, r.unique_id, r.rv)]
        a2 == [a1 EXCEPT !.resources_list = Append(@, r)]
        next ==
          IF filters # <<>> /\ r.kind \notin Range(filters) THEN a1
          ELSE IF InIgnoredNamespace(r)
            THEN [a2 EXCEPT !.resource_status = Put(@, r.unique_id, "ignored")]
          ELSE IF scan_type = "smart" /\ Unchanged(previous_snapshot, r)
            THEN [a2 EXCEPT !.resource_status = Put(@, r.unique_id, "analyzed"),
                            !.skipped_count = @ + 1]
          ELSE [a2 EXCEPT !.resource_status = Put(@, r.unique_id, "pending"),
                          !.resources_to_scan = Append(@, r)]
    IN Classify(all, k + 1, scan_type, filters, previous_snapshot, next)

\* lines 238-244: group the queue by namespace; acc carries the dict and the
\* order of its keys.
RECURSIVE GroupByNs(_, _, _)
GroupByNs(rs, k, acc) ==
  IF k > Len(rs) THEN acc
  ELSE
    LET r == rs[k]
        known == r.namespace \in DOMAIN acc.resources_by_ns
        by == IF known THEN acc.resources_by_ns
                       ELSE Put(acc.resources_by_ns, r.namespace, <<>>)
    IN GroupByNs(rs, k + 1,
         [namespaces |-> IF known THEN acc.namespaces
                                  ELSE Append(acc.namespaces, r.namespace),
          resources_by_ns |-> [by EXCEPT ![r.namespace] = Append(@, r)]])

\* lines 256-259: one "Analyzing kind/name..." line per resource of the batch
RECURSIVE LogEach(_, _, _)
LogEach(st, rs, k) ==
  IF k > Len(rs) THEN st
  ELSE LogEach(LogMessage(st, "Analyzing ", rs[k].unique_id), rs, k + 1)

\* lines 252-263: what the loop body does before it awaits the AI
BatchStart(st, ns, ns_resources) ==
  LogMessage(LogMessage(LogEach(st, ns_resources, 1),
                        "Namespace Summary: ", ns),
             "Sending batch to AI for deep inspection", ns)

\* state["resource_status"][r.unique_id] = v for each resource of the batch
\* whose status is not `keep`
RECURSIVE MarkEach(_, _, _, _, _)
MarkEach(status, rs, k, v, keep) ==
  IF k > Len(rs) THEN status
  ELSE MarkEach(IF status[rs[k].unique_id] = keep THEN status
                ELSE [status EXCEPT ![rs[k].unique_id] = v],
                rs, k + 1, v, keep)

\* What the listing thread may hand back: every resource with its current
\* version, or nothing when the API calls failed (k8s_adapter.py:42-87 logs and
\* swallows their errors), or no answer within the 60 s of line 171.
FetchOutcomes == {"listed", "empty", "timeout"}

ListResources(outcome, rv) ==
  IF outcome = "listed"
    THEN [k \in DOMAIN ClusterResources |->
            [kind |-> ClusterResources[k].kind, name |-> ClusterResources[k].name,
             namespace |-> ClusterResources[k].namespace,
             unique_id |-> ClusterResources[k].unique_id,
             rv |-> rv[ClusterResources[k].unique_id]]]
    ELSE <<>>

\* The version token of every listed resource
ListedTokens(all) ==
  [u \in {all[k].unique_id : k \in DOMAIN all} |->
     all[CHOOSE k \in DOMAIN all : all[k].unique_id = u].rv]

\* The resources somebody may have edited in the cluster since it was last
\* listed ("" = nobody edited anything), among those that are ever edited; an
\* edit gives the resource its next resourceVersion.
Edits(rv, editable) == {""} \cup {u \in editable : rv[u] < MaxVersion}

Edited(rv, u) == IF u = "" THEN rv ELSE [rv EXCEPT ![u] = @ + 1]

\* lines 173-269: the listing answered; classify, then either finish at once
\* (nothing to analyze) or send the first namespace batch to the AI.
ScanFetched(s, editable) ==
  /\ running = 0
  /\ spc[s] = "await_fetch"
  /\ ~slocal[s].cancel
  /\ \E outcome \in FetchOutcomes, u \in Edits(cluster_rv, editable) :
       LET st == scan_store[s]
           all == ListResources(outcome, Edited(cluster_rv, u))
           st1 == LogMessage(st, "Fetched total resources.", "")
           c == Classify(all, 1, st.type, st.filters,
                         IF st.cluster_id \in DOMAIN resource_snapshots
                           THEN resource_snapshots[st.cluster_id] ELSE EmptyDict,
                         [resources_list |-> st1.resources_list,
                          resource_status |-> st1.resource_status,
                          resources_to_scan |-> <<>>, skipped_count |-> 0,
                          current_snapshot |-> EmptyDict])
           st2 == [LogMessage([st1 EXCEPT !.resources_list = c.resources_list,
                                          !.resource_status = c.resource_status],
                              IF st.type = "smart"
                                THEN "Smart Scan: resources selected"
                                ELSE "Full Scan: resources queued.", "")
                   EXCEPT !.total_resources = Len(c.resources_to_scan)]
           g == GroupByNs(c.resources_to_scan, 1,
                          [namespaces |-> <<>>, resources_by_ns |-> EmptyDict])
       IN /\ cluster_rv' = Edited(cluster_rv, u)
          /\ IF outcome = "timeout"
               THEN /\ ScanFailed(s, st, "Timed out fetching resources from Kubernetes API")
                    /\ strace' = [strace EXCEPT ![s].fetch_timed_out = TRUE]
                    /\ UNCHANGED <<resource_snapshots, slocal>>
             ELSE IF c.resources_to_scan = <<>>
               THEN /\ scan_store' = [scan_store EXCEPT ![s] =
                         [LogMessage(st2, "No resources to analyze.", "")
                          EXCEPT !.status = "completed", !.progress = 100,
                                 !.results.summary =
                                   "No changes detected or no resources found matching filters."]]
                    /\ resource_snapshots' =
                         CommitSnapshot(resource_snapshots, st.cluster_id,
                                        c.current_snapshot)
                    /\ spc' = [spc EXCEPT ![s] = "done"]
                    /\ strace' = [strace EXCEPT ![s].fetched = ListedTokens(all),
                                                ![s].rv_at_fetch = Edited(cluster_rv, u),
                                                ![s].commits = @ + 1]
                    /\ UNCHANGED <<scans_file, snapshots_file, slocal>>
             ELSE /\ scan_store' = [scan_store EXCEPT ![s] =
                       BatchStart([st2 EXCEPT !.has_pending_snapshot = TRUE,
                                              !.pending_snapshot = c.current_snapshot,
                                              !.status = "analyzing"],
                                  g.namespaces[1], g.resources_by_ns[g.namespaces[1]])]
                  /\ slocal' = [slocal EXCEPT ![s] =
                       [@ EXCEPT !.namespaces = g.namespaces,
                                 !.resources_by_ns = g.resources_by_ns, !.ns = 1]]
                  /\ strace' = [strace EXCEPT ![s].ai_calls = @ + 1,
                                              ![s].rv_at_fetch = Edited(cluster_rv, u),
                                              ![s].fetched = ListedTokens(all)]
                  /\ spc' = [spc EXCEPT ![s] = "await_batch"]
                  /\ UNCHANGED <<resource_snapshots, scans_file, snapshots_file>>
  /\ UNCHANGED stopping
  /\ UNCHANGED boots
  /\ UNCHANGED avars
  /\ UNCHANGED dvars
  /\ UNCHANGED wvars

\* How an analyze_context call may end: it returns the first n issues of a
\* fixed list (n >= 0); or the AI backend fails or answers with unusable
\* output, which LangChainAdapter catches and turns into a result without
\* issues (llm_adapter.py:83-87 and 123-125); or the call itself raises, as the
\* port allows and as the adapter does on an error before its try block
\* (llm_adapter.py:22-35).
BackendFailed == -2
CallRaised == -1
BatchOutcomes == BackendFailed .. MaxIssues

Issues(ns, n) ==
  [k \in 1..n |-> [title |-> k, namespace |-> ns,
                   severity |-> IF k = 1 THEN "High" ELSE "Low"]]

\* lines 279-284: the loop over partial_result.issues from the k-th on; each
\* round extends issues_found by the whole list and logs one line.
RECURSIVE CollectIssues(_, _, _)
CollectIssues(acc, issues, k) ==
  IF k > Len(issues) THEN acc
  ELSE CollectIssues(
         [issues_found |-> acc.issues_found \o issues,
          st |-> LogMessage(acc.st, issues[k].severity, issues[k].namespace)],
         issues, k + 1)

\* (processed_count / total) * 100 truncated to an integer, line 300
Progress(processed_count, total) == (processed_count * 100) \div total

\* lines 274-301: the AI call of the current batch is over.
\* A handler that marks everything still pending, not the batch alone.
NamespaceErrorMarksQueue(st, ns, ns_resources) ==
  [LogMessage(st, "Error analyzing namespace ", ns)
   EXCEPT !.resource_status =
     [u \in DOMAIN @ |-> IF @[u] = "pending" THEN "error" ELSE @[u]]]

\* except Exception around the AI call, lines 288-291: the error is logged and
\* the resources of the batch are marked error.
NamespaceError(st, ns, ns_resources) ==
  [LogMessage(st, "Error analyzing namespace ", ns)
   EXCEPT !.resource_status = MarkEach(@, ns_resources, 1, "error", "")]

ScanBatchReturns(s, outcomes) ==
  /\ running = 0
  /\ spc[s] = "await_batch"
  /\ ~slocal[s].cancel
  /\ \E n \in outcomes :
       LET st == scan_store[s]
           loc == slocal[s]
           ns == loc.namespaces[loc.ns]
           ns_resources == loc.resources_by_ns[ns]
           issues == IF n < 0 THEN <<>> ELSE Issues(ns, n)
           st1 == LogMessage(st, "AI Analysis completed for ", ns)
           got == IF issues # <<>>
                    THEN CollectIssues(
                           [issues_found |-> loc.issues_found,
                            st |-> LogMessage(st1, "AI detected issues in ", ns)],
                           issues, 1)
                    ELSE [issues_found |-> loc.issues_found,
                          st |-> LogMessage(st1, "No issues detected in ", ns)]
           failed == [issues_found |-> loc.issues_found,
                      st |-> NamespaceError(st, ns, ns_resources)]
           after == IF n = CallRaised THEN failed ELSE got
           processed_count == loc.processed_count + Len(ns_resources)
       IN /\ scan_store' = [scan_store EXCEPT ![s] =
               [after.st EXCEPT
                  !.resource_status = MarkEach(@, ns_resources, 1, "analyzed", "error"),
                  !.analyzed_resources = processed_count,
                  !.progress = Progress(processed_count, st.total_resources)]]
          /\ slocal' = [slocal EXCEPT ![s] =
               [@ EXCEPT !.issues_found = after.issues_found,
                         !.processed_count = processed_count]]
          /\ strace' = [strace EXCEPT ![s].returned = Append(@, issues),
                                      ![s].ai_raised = IF n = CallRaised THEN @ \cup {ns} ELSE @]
  /\ spc' = [spc EXCEPT ![s] = "batch_yield"]
  /\ UNCHANGED <<resource_snapshots, scans_file, snapshots_file, cluster_rv, stopping>>
  /\ UNCHANGED boots
  /\ UNCHANGED avars
  /\ UNCHANGED dvars
  /\ UNCHANGED wvars

\* lines 251-269 and 303-316: the yield after a batch is over; either the
\* next namespace batch is sent, or the loop is over and the scan finalizes.
ScanNextBatch(s) ==
  /\ running = 0
  /\ spc[s] = "batch_yield"
  /\ ~slocal[s].cancel
  /\ LET st == scan_store[s]
         loc == slocal[s]
     IN IF loc.ns < Len(loc.namespaces)
          THEN LET ns == loc.namespaces[loc.ns + 1]
               IN /\ scan_store' = [scan_store EXCEPT ![s] =
                       BatchStart(st, ns, loc.resources_by_ns[ns])]
                  /\ slocal' = [slocal EXCEPT ![s].ns = @ + 1]
                  /\ strace' = [strace EXCEPT ![s].ai_calls = @ + 1]
                  /\ spc' = [spc EXCEPT ![s] = "await_batch"]
                  /\ UNCHANGED <<resource_snapshots, scans_file, snapshots_file>>
          ELSE LET st1 == LogMessage(
                      [st EXCEPT !.results.issues = loc.issues_found,
                                 !.results.summary = "Scan complete."],
                      "Analysis passed. Generating final summary...", "")
                   snaps == IF st1.has_pending_snapshot
                              THEN CommitSnapshot(resource_snapshots, st.cluster_id,
                                                  st1.pending_snapshot)
                              ELSE resource_snapshots
                   store == [scan_store EXCEPT ![s] =
                      LogMessage([st1 EXCEPT !.status = "completed",
                                             !.progress = 100],
                                 "Scan completed successfully.", "")]
               IN /\ scan_store' = store
                  /\ resource_snapshots' = snaps
                  /\ SaveScans(store, snaps)
                  /\ spc' = [spc EXCEPT ![s] = "done"]
                  /\ strace' = [strace EXCEPT ![s].commits =
                                   IF st1.has_pending_snapshot THEN @ + 1 ELSE @]
                  /\ UNCHANGED slocal
  /\ UNCHANGED <<cluster_rv, stopping>>
  /\ UNCHANGED boots
  /\ UNCHANGED avars
  /\ UNCHANGED dvars
  /\ UNCHANGED wvars

\* The suspension points of _run_scan (lines 163, 169, 269, 301) and the
\* not yet started task.
Suspended == {"created", "yield", "await_fetch", "await_batch", "batch_yield"}

\* task.cancel() took effect: CancelledError is thrown into the task where it
\* is suspended.  Inside the try this is the handler of lines 318-321; a task
\* cancelled before its first step never enters the coroutine.
ScanCancelled(s) ==
  /\ running = 0
  /\ spc[s] \in Suspended
  /\ slocal[s].cancel
  /\ IF spc[s] = "created"
       THEN UNCHANGED <<scan_store, scans_file, snapshots_file>>
       ELSE LET store == [scan_store EXCEPT ![s] =
                   LogMessage([@ EXCEPT !.status = "stopped"],
                              "Scan stopped by user.", "")]
            IN /\ scan_store' = store
               /\ SaveScans(store, resource_snapshots)
  /\ spc' = [spc EXCEPT ![s] = "done"]
  /\ slocal' = [slocal EXCEPT ![s].cancel = FALSE]
  /\ UNCHANGED <<resource_snapshots, cluster_rv, stopping, strace>>
  /\ UNCHANGED boots
  /\ UNCHANGED avars
  /\ UNCHANGED dvars
  /\ UNCHANGED wvars

\* A tail of stop_scan that leaves the status to the task.
StopTailKeepsStatus(s) ==
  /\ UNCHANGED scan_store
  /\ SaveScans(scan_store, resource_snapshots)

\* lines 102-105: the tail of stop_scan
StopTail(s) ==
  LET st == scan_store[s]
      store == IF st.status # "stopped"
                 THEN [scan_store EXCEPT ![s] =
                         LogMessage([st EXCEPT !.status = "stopped"],
                                    "Scan stopped by user.", "")]
                 ELSE scan_store
  IN /\ scan_store' = store
     /\ SaveScans(store, resource_snapshots)

\* stop_scan lines 91-97: the call, up to `await task`; with the task already
\* done the call runs through to its end.
stop_scan(s) ==
  /\ running = 0
  /\ s \in DOMAIN scan_store
  /\ scan_store[s].in_store
  /\ s \notin stopping
  /\ ~strace[s].stop_returned
  /\ IF spc[s] \in Suspended
       THEN /\ slocal' = [slocal EXCEPT ![s].cancel = TRUE]
            /\ stopping' = stopping \cup {s}
            /\ strace' = [strace EXCEPT ![s].stop_called_at = spc[s],
                                        ![s].ai_calls_at_stop = strace[s].ai_calls]
            /\ UNCHANGED <<scan_store, scans_file, snapshots_file>>
       ELSE /\ StopTail(s)
            /\ strace' = [strace EXCEPT ![s].stop_called_at = spc[s],
                                        ![s].stop_returned = TRUE]
            /\ UNCHANGED <<slocal, stopping>>
  /\ UNCHANGED <<resource_snapshots, cluster_rv, spc>>
  /\ UNCHANGED boots
  /\ UNCHANGED avars
  /\ UNCHANGED dvars
  /\ UNCHANGED wvars

\* stop_scan lines 97-105: the awaited task is done
StopReturns(s) ==
  /\ running = 0
  /\ s \in stopping
  /\ spc[s] = "done"
  /\ IF scan_store[s].in_store
       THEN StopTail(s)
       ELSE \* line 102 raises KeyError: stop_scan ends there
            UNCHANGED <<scan_store, scans_file, snapshots_file>>
  /\ stopping' = stopping \ {s}
  /\ strace' = [strace EXCEPT ![s].stop_returned = TRUE]
  /\ UNCHANGED <<resource_snapshots, cluster_rv, spc, slocal>>
  /\ UNCHANGED boots
  /\ UNCHANGED avars
  /\ UNCHANGED dvars
  /\ UNCHANGED wvars


\* One step of the task of scan s, in a cluster where the resources of
\* `editable` are edited now and then, and with AI calls that end in one of
\* `outcomes`.
ScanTask(s, editable, outcomes) ==
  \/ ScanBegin(s)
  \/ ScanFetch(s)
  \/ ScanFetched(s, editable)
  \/ ScanBatchReturns(s, outcomes)
  \/ ScanNextBatch(s)
  \/ ScanCancelled(s)

\* The unique_id of every resource of the cluster
ResourceIds == {ClusterResources[k].unique_id : k \in DOMAIN ClusterResources}

\* The resources that are edited now and then: one in each analysed namespace
EditedResources == {"Deployment/default/web", "ConfigMap/shop/cfg"}

\* Scans of a cluster nobody edits; the AI returns any number of issues.
ScanNext ==
  \/ \E s \in Scans, c \in ClusterIds, t \in ScanTypes, f \in ScanFilters :
       start_global_scan(s, c, t, f)
  \/ \E s \in Scans : ScanTask(s, {}, CallRaised .. MaxIssues)
  \/ \E s \in Scans : stop_scan(s)
  \/ \E s \in Scans : StopReturns(s)

\* A session loaded as if its status were never fetching_resources.
LoadScansMissesFetching(file) ==
  [s \in DOMAIN file |->
     IF file[s].status \in {"analyzing", "initializing"}
       THEN [file[s] EXCEPT
               !.status = "failed",
               !.logs = Append(@, [text |-> "Scan interrupted by system restart.",
                                   arg |-> ""])]
       ELSE file[s]]

\* _load_scans, lines 44-54: the store is what the scans file holds, each
\* session found analyzing, initializing or fetching_resources set to failed
\* with one more log entry (appended past the cap of _log_message).
LoadScans(file) ==
  [s \in DOMAIN file |->
     IF file[s].status \in {"analyzing", "initializing", "fetching_resources"}
       THEN [file[s] EXCEPT
               !.status = "failed",
               !.logs = Append(@, [text |-> "Scan interrupted by system restart.",
                                   arg |-> ""])]
       ELSE file[s]]

\* The process ends wherever its tasks are suspended and is started again:
\* the module state of main.py is rebuilt, ScanService.__init__ (lines 21-26)
\* reads the snapshots file and the scans file, no task and no workflow of the
\* old process exists any more.  What lives outside the process stays: the
\* files, the shadow clusters, the tunnel processes and their descriptors.
Restart ==
  /\ boots < MaxRestarts
  /\ boots' = boots + 1
  /\ scan_store' = LoadScans(scans_file)
  /\ resource_snapshots' = snapshots_file
  /\ spc' = [s \in Scans |-> IF s \in DOMAIN scans_file THEN "done" ELSE "idle"]
  /\ slocal' = [s \in Scans |-> NoLocal]
  /\ stopping' = {}
  /\ workflow_store' = <<>>
  /\ pc' = [w \in Workflows |-> "idle"]
  /\ i' = [w \in Workflows |-> 0]
  /\ exc' = [w \in Workflows |-> ""]
  /\ running' = 0
  /\ bg_processes' = {}
  /\ UNCHANGED <<scans_file, snapshots_file, cluster_rv, strace>>
  /\ UNCHANGED <<cluster_registry, proc, descriptor, vclusters, trace>>
  /\ UNCHANGED avars
  /\ UNCHANGED dvars

\* clear_cache, lines 129-134: both dicts are emptied in place; nothing is
\* cancelled and nothing is saved.
clear_cache ==
  /\ running = 0
  /\ InStore # {}
  /\ scan_store' = [s \in DOMAIN scan_store |->
                      [scan_store[s] EXCEPT !.in_store = FALSE]]
  /\ resource_snapshots' = EmptyDict
  /\ UNCHANGED <<scans_file, snapshots_file, cluster_rv, spc, slocal, stopping,
                 strace>>
  /\ UNCHANGED boots
  /\ UNCHANGED avars
  /\ UNCHANGED dvars
  /\ UNCHANGED wvars

\* get_scan_status, lines 107-111: the session, or None
get_scan_status(s) ==
  IF s \in InStore THEN scan_store[s] ELSE [id |-> 0]

\* list_scans, lines 113-127: one summary per session of the store
list_scans ==
  {[id |-> s, status |-> scan_store[s].status,
    progress |-> scan_store[s].progress] : s \in InStore}

\* Scans of a process whose cache may be cleared.
ClearNext ==
  \/ \E s \in Scans, c \in ClusterIds, t \in ScanTypes, f \in ScanFilters :
       start_global_scan(s, c, t, f)
  \/ \E s \in Scans : ScanTask(s, {}, {0})
  \/ \E s \in Scans : stop_scan(s)
  \/ \E s \in Scans : StopReturns(s)
  \/ clear_cache

\* The log of a session that scans a namespace of many resources: lines
\* 256-259 log one entry for each of them.  The listing models four resources;
\* the entries of the others are logged here, up to a log of n entries.
LongLogs == {LogCap - 1, LogCap}

LogMore(st, n) ==
  LET l == st.logs \o [k \in 1..(n - Len(st.logs)) |->
                         [text |-> "Analyzing ", arg |-> "another resource"]]
  IN [st EXCEPT !.logs = IF Len(l) > LogCap
                           THEN SubSeq(l, Len(l) - LogCap + 1, Len(l))
                           ELSE l]

LargeBatch(s) ==
  /\ running = 0
  /\ spc[s] = "await_batch"
  /\ scan_store[s].in_store
  /\ ~slocal[s].cancel
  /\ Len(scan_store[s].logs) < LogCap - 1
  /\ \E n \in LongLogs :
       scan_store' = [scan_store EXCEPT ![s] = LogMore(@, n)]
  /\ UNCHANGED <<resource_snapshots, scans_file, snapshots_file, cluster_rv,
                 spc, slocal, stopping, strace>>
  /\ UNCHANGED boots
  /\ UNCHANGED avars
  /\ UNCHANGED dvars
  /\ UNCHANGED wvars

\* Long scans in a process that may be restarted.
LogNext ==
  \/ \E s \in Scans : start_global_scan(s, "prod", "full", <<>>)
  \/ \E s \in Scans : ScanTask(s, {}, {1})
  \/ LargeBatch(1)
  \/ \E s \in Scans : stop_scan(s)
  \/ \E s \in Scans : StopReturns(s)
  \/ Restart

\* Scans of a process that may be restarted.
RestartNext ==
  \/ \E s \in Scans, c \in ClusterIds, t \in ScanTypes, f \in ScanFilters :
       start_global_scan(s, c, t, f)
  \/ \E s \in Scans : ScanTask(s, {}, {0})
  \/ \E s \in Scans : stop_scan(s)
  \/ \E s \in Scans : StopReturns(s)
  \/ Restart

\* One scan session, with every outcome of the listing and of the AI calls.
SessionNext ==
  \/ \E c \in ClusterIds, t \in ScanTypes, f \in ScanFilters :
       start_global_scan(1, c, t, f)
  \/ ScanTask(1, EditedResources, BatchOutcomes)
  \/ stop_scan(1)
  \/ StopReturns(1)

\* The clusters saved in the cluster file (main.py:243-244); the second one
\* holds resources of the same names as the first.
SavedClusters == {"prod", "staging"}

\* main.py:242-259  connect_saved_cluster: a saved cluster that answers is put
\* into active_connections.  The route is a plain function: it runs while the
\* loop is free.
connect_saved_cluster(cluster_id) ==
  /\ running = 0
  /\ cluster_id \in SavedClusters \ cluster_registry
  /\ cluster_registry' = cluster_registry \cup {cluster_id}
  /\ UNCHANGED <<workflow_store, pc, i, exc, running, bg_processes, proc,
                 descriptor, vclusters, trace>>
  /\ UNCHANGED svars
  /\ UNCHANGED avars
  /\ UNCHANGED dvars

\* One scan of each of two clusters, interleaved in any order.
TwoClusterNext ==
  \/ connect_saved_cluster("staging")
  \/ \E t \in ScanTypes, f \in ScanFilters : start_global_scan(1, "prod", t, f)
  \/ \E t \in ScanTypes, f \in ScanFilters : start_global_scan(2, "staging", t, f)
  \/ \E s \in Scans : ScanTask(s, {}, {CallRaised, 1})
  \/ \E s \in Scans : stop_scan(s)
  \/ \E s \in Scans : StopReturns(s)

\* A fix workflow and a full scan on the same event loop (main.py:147-157
\* builds both services in one process; the routes at 303-311 and 397-426
\* start their tasks with asyncio.create_task).
LoopNext ==
  \/ \E w \in Workflows, c \in ClusterIds : start_fix_workflow(w, c)
  \/ \E w \in Workflows : WorkflowTask(w)
  \/ start_global_scan(1, "prod", "full", <<>>)
  \/ ScanBegin(1)
  \/ ScanFetch(1)
  \/ ScanFetched(1, {})
  \/ ScanBatchReturns(1, {0})
  \/ ScanNextBatch(1)

\* Scans of a cluster whose resources are edited between listings; an AI call
\* fails or finds nothing.
SnapshotNext ==
  \/ \E s \in Scans, c \in ClusterIds, t \in ScanTypes, f \in ScanFilters :
       start_global_scan(s, c, t, f)
  \/ \E s \in Scans : ScanTask(s, EditedResources, {CallRaised, 0})
  \/ \E s \in Scans : stop_scan(s)
  \/ \E s \in Scans : StopReturns(s)

\* ------------------------------------------------------------- audit chain
\* What callers pass to log_action and what the clock and the signer add.
AuditUsers == {"system", "admin"}
AuditActions == {"apply_fix"}
AuditDetails == {[cluster |-> "prod"]}
Clock == {"t1", "t2"}
Salts == {"s1", "s2"}

\* "0" * 64, lines 38, 47 and 55
Sentinel == <<"0">>

\* hashlib.sha256(text.encode()).hexdigest(): different texts, different digests
Sha256(text) == <<"sha256", text>>

\* A payload that leaves the details out.
CanonicalOmitsDetails(timestamp, user_id, action, details, previous_hash) ==
  [action |-> action, previous_hash |-> previous_hash,
   timestamp |-> timestamp, user_id |-> user_id]

\* json.dumps(data_to_sign_dict, sort_keys=True), lines 63-70
Canonical(timestamp, user_id, action, details, previous_hash) ==
  [action |-> action, details |-> details, previous_hash |-> previous_hash,
   timestamp |-> timestamp, user_id |-> user_id]

\* private_key.sign with PSS padding, lines 73-80: the signature binds the
\* signed bytes and carries a random salt.
Sign(data, salt) == [signed |-> data, salt |-> salt]

\* entry.json() + "\n", line 92: one line of JSON with its end of line.
Serialize(entry) == [kind |-> "json", body |-> entry, eol |-> "\n"]

\* The loop of lines 42-44: the index of the last line that is not blank
\* (0 when there is none).
RECURSIVE LastLine(_, _)
LastLine(log, k) ==
  IF k = 0 THEN 0
  ELSE IF log[k].kind # "blank" THEN k
  ELSE LastLine(log, k - 1)

\* A digest of the line without its end of line.
GetLastHashStripped(exists, log) ==
  IF ~exists THEN Sentinel
  ELSE LET k == LastLine(log, Len(log)) IN
    IF k = 0 THEN Sentinel
    ELSE IF log[k].kind = "json" THEN Sha256([log[k] EXCEPT !.eol = ""])
    ELSE Sentinel

\* _get_last_hash, lines 36-55: the sentinel when the file is missing, holds
\* no line or its last line is not JSON; the digest of the last line, end of
\* line included, otherwise.
GetLastHash(exists, log) ==
  IF ~exists THEN Sentinel
  ELSE LET k == LastLine(log, Len(log)) IN
    IF k = 0 THEN Sentinel
    ELSE IF log[k].kind = "json" THEN Sha256(log[k])
    ELSE Sentinel

\* log_action, lines 57-92
log_action(user_id, action, details) ==
  /\ Len(audit_log) < MaxEntries
  /\ \E timestamp \in Clock, salt \in Salts :
       LET prev_hash == GetLastHash(log_exists, audit_log)
           data == Canonical(timestamp, user_id, action, details, prev_hash)
           entry == [timestamp |-> timestamp, user_id |-> user_id,
                     action |-> action, details |-> details,
                     previous_hash |-> prev_hash,
                     signature |-> Sign(data, salt)]
       IN audit_log' = Append(audit_log, Serialize(entry))
  /\ log_exists' = TRUE
  /\ UNCHANGED tampered
  /\ UNCHANGED <<wvars, svars, dvars>>

\* An operator creates the log file before the first entry is written.
ProvisionLog ==
  /\ ~log_exists
  /\ log_exists' = TRUE
  /\ UNCHANGED <<audit_log, tampered>>
  /\ UNCHANGED <<wvars, svars, dvars>>

\* audit_adapter.py:91-92: the process is stopped while the line of an entry
\* is being written: a prefix of the line reaches the file, without its end,
\* and json.loads does not parse it.
TornAppend(user_id, action, details) ==
  /\ Len(audit_log) < MaxEntries
  /\ log_exists
  /\ \A k \in DOMAIN audit_log : audit_log[k].kind = "json"
  /\ \E timestamp \in Clock :
       audit_log' = Append(audit_log,
                           [kind |-> "torn",
                            body |-> [timestamp |-> timestamp, user_id |-> user_id,
                                      action |-> action],
                            eol |-> ""])
  /\ UNCHANGED <<log_exists, tampered>>
  /\ UNCHANGED <<wvars, svars, dvars>>

\* Appends to a log whose last write may have been cut short.
TornNext ==
  \/ \E u \in AuditUsers, a \in AuditActions, d \in AuditDetails : log_action(u, a, d)
  \/ ProvisionLog
  \/ \E u \in AuditUsers, a \in AuditActions, d \in AuditDetails : TornAppend(u, a, d)

AuditNext ==
  \/ \E u \in AuditUsers, a \in AuditActions, d \in AuditDetails : log_action(u, a, d)
  \/ ProvisionLog

\* Somebody with access to the file rewrites the payload of entry k: another
\* user, or other details.
TamperedDetails == [cluster |-> "gone"]

Tamper(k) ==
  /\ tampered.k = 0
  /\ k \in 1..Len(audit_log)
  /\ \/ \E u \in AuditUsers \ {audit_log[k].body.user_id} :
          audit_log' = [audit_log EXCEPT ![k].body.user_id = u]
     \/ audit_log' = [audit_log EXCEPT ![k].body.details = TamperedDetails]
  /\ tampered' = [k |-> k, n |-> Len(audit_log)]
  /\ UNCHANGED log_exists
  /\ UNCHANGED <<wvars, svars, dvars>>

\* The verification of section 4.4 of the specification, which the adapter
\* does not implement.  The signature of entry n is checked against the
\* canonical payload rebuilt from the stored fields; its link is checked
\* against the digest of the raw line before it (the sentinel for the first);
\* a mismatch flags the log from that entry on, so the chain verifies at
\* entry n when every link up to n does.
SignatureVerifies(log, n) ==
  LET e == log[n].body
  IN e.signature.signed =
       Canonical(e.timestamp, e.user_id, e.action, e.details, e.previous_hash)

LinkVerifies(log, n) ==
  log[n].body.previous_hash = IF n = 1 THEN Sentinel ELSE Sha256(log[n - 1])

ChainVerifies(log, n) == \A m \in 1..n : LinkVerifies(log, m)

TamperNext ==
  \/ \E u \in AuditUsers, a \in AuditActions, d \in AuditDetails : log_action(u, a, d)
  \/ ProvisionLog
  \/ \E k \in 1..MaxEntries : Tamper(k)

\* The state after main.py has constructed both services: nothing stored,
\* one cluster connected, no task scheduled.
Init ==
  /\ workflow_store = <<>>
  /\ cluster_registry = {"prod"}
  /\ pc = [w \in Workflows |-> "idle"]
  /\ i = [w \in Workflows |-> 0]
  /\ exc = [w \in Workflows |-> ""]
  /\ running = 0
  /\ bg_processes = {}
  /\ proc = [w \in Workflows |-> "none"]
  /\ descriptor = [w \in Workflows |-> "absent"]
  /\ vclusters = {}
  /\ trace = [w \in Workflows |-> NoTrace]
  /\ scan_store = EmptyDict
  /\ resource_snapshots = EmptyDict
  /\ scans_file = EmptyDict
  /\ snapshots_file = EmptyDict
  /\ cluster_rv = [u \in ResourceIds |-> 1]
  /\ spc = [s \in Scans |-> "idle"]
  /\ slocal = [s \in Scans |-> NoLocal]
  /\ stopping = {}
  /\ strace = [s \in Scans |-> NoScanTrace]
  /\ boots = 0
  /\ log_exists = FALSE
  /\ audit_log = <<>>
  /\ tampered = [k |-> 0, n |-> 0]
  /\ built = NoResource

\* The scan engine alone (no workflow is started).
ScanSpec == Init /\ [][ScanNext]_vars

\* The audit chain when a stored entry is altered.
TamperSpec == Init /\ [][TamperNext]_vars

\* Scans of two clusters.
TwoClusterSpec == Init /\ [][TwoClusterNext]_vars

\* The audit chain under appends.
AuditSpec == Init /\ [][AuditNext]_vars

\* The audit chain when a write was cut short.
TornSpec == Init /\ [][TornNext]_vars

\* The scan engine when the cache is cleared.
ClearSpec == Init /\ [][ClearNext]_vars

\* The scan engine with long logs.
LogSpec == Init /\ [][LogNext]_vars

\* Resource objects being constructed.
DomainSpec == Init /\ [][DomainNext]_vars

\* A workflow and a scan sharing the loop.
LoopSpec == Init /\ [][LoopNext]_vars

\* The scan engine in a process that is restarted.
RestartSpec == Init /\ [][RestartNext]_vars

\* A single scan session.
SessionSpec == Init /\ [][SessionNext]_vars

\* The scan engine on a cluster that changes.
SnapshotSpec == Init /\ [][SnapshotNext]_vars

\* The workflows alone (no scan is started).
WorkflowSpec == Init /\ [][WorkflowNext]_vars

\* asyncio runs every scheduled task, and every call a workflow awaits returns
\* (the subprocess calls carry timeouts, the sleeps are finite).
WorkflowFairSpec ==
  WorkflowSpec /\ \A w \in Workflows : WF_vars(WorkflowTask(w))

\* =================================================================== claims
Started == DOMAIN workflow_store

Status(w) == workflow_store[w].status

HasLog(w, text, arg) ==
  \E k \in 1..Len(workflow_store[w].logs) :
     workflow_store[w].logs[k] = [text |-> text, arg |-> arg]

\* The summary mentions 'high' or 'critical', whatever the case of the letters.
MentionsSeverity(summary) ==
  \E word \in {<<"h", "i", "g", "h">>, <<"c", "r", "i", "t", "i", "c", "a", "l">>} :
     Contains(Lower(Text(summary)), word)

\* The position of a status in the phase order (0 for failed).
PhaseIndex(s) ==
  IF \E k \in 1..Len(PhaseOrder) : PhaseOrder[k] = s
    THEN CHOOSE k \in 1..Len(PhaseOrder) : PhaseOrder[k] = s
    ELSE 0

\* C1: for every workflow, whichever phase fails, the number of
\* destroy_shadow_env calls never exceeds 1 nor the number of
\* create_shadow_env calls that returned, and equals it once the workflow
\* task has ended.
C1_DestroyEqualsCreate ==
  \A w \in Workflows :
     /\ trace[w].create_returned <= 1
     /\ trace[w].destroy_calls <= trace[w].create_returned
     /\ pc[w] = "done" => trace[w].destroy_calls = trace[w].create_returned

\* A workflow that failed after its shadow environment was created has ended
\* with one create and one destroy.
C1_Witness ==
  \E w \in Workflows :
     /\ pc[w] = "done"
     /\ trace[w].raised_in = "step_3_apply_vcluster"
     /\ trace[w].create_returned = 1
     /\ trace[w].destroy_calls = 1

\* C2: apply_manifest is called on the real cluster only after the apply in
\* the shadow environment returned True and the gate saw a summary that
\* mentions neither 'high' nor 'critical'; when the summary mentions one of
\* them there is no apply on the real cluster and the workflow ends failed.
C2_RealApplyOnlyPastGate ==
  \A w \in Workflows :
     /\ trace[w].real_apply_calls > 0 =>
          /\ trace[w].shadow_applied
          /\ trace[w].gate_summary # ""
          /\ ~MentionsSeverity(trace[w].gate_summary)
     /\ (trace[w].gate_summary # "" /\ MentionsSeverity(trace[w].gate_summary)) =>
          /\ trace[w].real_apply_calls = 0
          /\ pc[w] = "done" => Status(w) = "failed"

\* A workflow whose gate saw "Highly stable" ('high' inside a word) has ended
\* failed without touching the real cluster.
C2_Witness ==
  \E w \in Workflows :
     /\ pc[w] = "done"
     /\ trace[w].gate_summary = "Highly stable"
     /\ trace[w].shadow_applied
     /\ trace[w].real_apply_calls = 0
     /\ Status(w) = "failed"

\* One step of a workflow's status: unchanged, one phase forward, or to failed
\* from a status that is not terminal.
StatusStepOk(w) ==
  IF w \notin Started
    THEN w \in Started' => Status(w)' = "initializing"
    ELSE \/ Status(w)' = Status(w)
         \/ /\ Status(w) \notin Terminal
            /\ \/ Status(w)' = "failed"
               \/ PhaseIndex(Status(w)') = PhaseIndex(Status(w)) + 1

\* C3: a workflow's status only moves one phase forward along the phase order,
\* or to failed; completed and failed never change; and a completed workflow
\* has been in step_5_apply_real.
C3_StatusMonotonic ==
  /\ [][\A w \in Workflows : StatusStepOk(w)]_vars
  /\ [](\A w \in Started :
          Status(w) = "completed" =>
            \E k \in 1..Len(trace[w].hist) : trace[w].hist[k] = "step_5_apply_real")

\* A workflow is completed.
C3_Witness ==
  \E w \in Started : Status(w) = "completed" /\ trace[w].hist = PhaseOrder

\* C4 (as claimed): whenever a status poll can return completed or failed, and
\* whenever the completion callback sees such a status, every shadow
\* environment created for the workflow has been destroyed.
C4_DestroyedBeforeTerminalVisible ==
  \A w \in Workflows :
     /\ (running = 0 /\ get_workflow_status(w).status \in Terminal) =>
          trace[w].destroy_returned = trace[w].create_returned
     /\ \A k \in 1..Len(trace[w].callbacks) :
          trace[w].callbacks[k].status \in Terminal => trace[w].callbacks[k].destroyed

\* C5: once an exception of any phase has been handled, the status is failed,
\* the log holds a CRITICAL ERROR line for it, the statuses assigned are the
\* phases up to the one that raised followed by failed (no later phase ran),
\* and when the task has ended the shadow environment, if one was created,
\* has had its destroy call.
C5_ErrorFailsAndCleansUp ==
  \A w \in Workflows :
     (trace[w].raised_in # "" /\ pc[w] # "except") =>
        /\ Status(w) = "failed"
        /\ HasLog(w, "CRITICAL ERROR", exc[w])
        /\ trace[w].hist =
             Append(SubSeq(PhaseOrder, 1, PhaseIndex(trace[w].raised_in)), "failed")
        /\ pc[w] = "done" => trace[w].destroy_calls = trace[w].create_returned

\* The gate tripped in step 4 and the workflow has ended, cleaned up.
C5_Witness ==
  \E w \in Workflows :
     /\ pc[w] = "done"
     /\ trace[w].raised_in = "step_4_validate_vcluster"
     /\ exc[w] = "VCluster validation failed due to high severity risks detected."
     /\ trace[w].destroy_calls = 1

\* C6 (as claimed): when the poll loop of create_shadow_env ran out with the
\* descriptor not ready, the workflow ends failed with a log line about the
\* timeout and no apply on the real cluster.
C6_DescriptorTimeoutFails ==
  \A w \in Workflows :
     (trace[w].window_expired /\ pc[w] = "done") =>
        /\ Status(w) = "failed"
        /\ HasLog(w, "CRITICAL ERROR", "Timed out waiting for vcluster kubeconfig generation")
        /\ trace[w].real_apply_calls = 0

\* No external call failed and the gate's summary mentions no severity.
CleanRun(w) ==
  /\ ~trace[w].faults
  /\ ~MentionsSeverity(trace[w].gate_summary)

DestroyRaised(w) ==
  /\ pc[w] = "done"
  /\ trace[w].destroy_calls = 1
  /\ trace[w].destroy_returned = 0

\* C8: an error raised by destroy_shadow_env is appended to the workflow log,
\* and no step of the cleanup changes the terminal status the workflow had
\* when the cleanup began.
C8_CleanupErrorKeepsStatus ==
  /\ [](\A w \in Workflows :
          DestroyRaised(w) =>
            /\ HasLog(w, "Warning during cleanup", "OSError")
            /\ Status(w) = trace[w].hist[Len(trace[w].hist)]
            /\ Status(w) \in Terminal)
  /\ [][\A w \in Started :
          pc[w] \in {"finally", "wait_tunnel", "await_delete"} => Status(w)' = Status(w)]_vars

\* The delete command of a completed workflow's cleanup raised.
C8_Witness ==
  \E w \in Workflows :
     /\ DestroyRaised(w)
     /\ Status(w) = "completed"
     /\ workflow_store[w].logs[Len(workflow_store[w].logs)] =
          [text |-> "Warning during cleanup", arg |-> "OSError"]

\* C9 (as claimed): once apply_manifest on the real cluster has returned True,
\* the workflow ends completed.
C9_FinalValidationNeverFails ==
  \A w \in Workflows :
     (trace[w].real_applied /\ pc[w] = "done") => Status(w) = "completed"


\* The concatenation of the issue lists of the batches from the k-th on
RECURSIVE Flatten(_, _)
Flatten(lists, k) ==
  IF k > Len(lists) THEN <<>> ELSE lists[k] \o Flatten(lists, k + 1)

\* stop_scan was called on scan s while it was between its first and its
\* last namespace batch, and has returned.
StoppedMidAnalysis(s) ==
  /\ s \in DOMAIN scan_store
  /\ strace[s].stop_returned
  /\ strace[s].stop_called_at \in {"await_batch", "batch_yield"}
  /\ Len(strace[s].returned) >= 1
  /\ Len(strace[s].returned) < Len(slocal[s].namespaces)

\* C10: when a scan is stopped after it has completed namespace batch k of N
\* (k < N), the session's recorded issues are exactly the issues returned by
\* batches 1..k.
C10_StoppedKeepsBatchIssues ==
  \A s \in Scans :
    StoppedMidAnalysis(s) =>
      scan_store[s].results.issues = Flatten(strace[s].returned, 1)


\* stop_scan was called on scan s while its task was in flight, and has
\* returned.
StoppedInFlight(s) ==
  /\ s \in DOMAIN scan_store
  /\ strace[s].stop_returned
  /\ strace[s].stop_called_at \in Suspended

\* C11: when stop_scan is called on a scan in flight (before the fetch, during
\* it, or between namespace batches), then after it returned the session is
\* stopped, no namespace batch was sent to the AI after the call, and the
\* session has not committed a snapshot: the committed snapshots are those of
\* before the scan started unless another session committed since.
C11_StopInFlight ==
  \A s \in Scans :
    StoppedInFlight(s) =>
      /\ scan_store[s].status = "stopped"
      /\ strace[s].ai_calls = strace[s].ai_calls_at_stop
      /\ strace[s].commits = 0
      /\ (\A t \in Scans \ {s} : strace[t].commits = 0) =>
            resource_snapshots = strace[s].snapshot_before

\* Scans were stopped before their first step, during the fetch and between
\* two namespace batches, and the calls have returned.
C11_Witness ==
  /\ \E s \in Scans : StoppedInFlight(s) /\ strace[s].stop_called_at = "created"
  /\ \E s \in Scans :
       /\ StoppedInFlight(s)
       /\ strace[s].stop_called_at = "batch_yield"
       /\ strace[s].ai_calls = 1
       /\ scan_store[s].has_pending_snapshot



\* Scan s2 is a smart scan that ran to completion right after the smart scan
\* s1 of the same cluster had run to completion, and no resource had another
\* version token when s2 listed the cluster than when s1 did.
SmartTwice(s1, s2) ==
  /\ s1 \in DOMAIN scan_store /\ s2 \in DOMAIN scan_store
  /\ s1 \in strace[s2].done_before
  /\ scan_store[s1].type = "smart" /\ scan_store[s2].type = "smart"
  /\ scan_store[s1].cluster_id = scan_store[s2].cluster_id
  /\ scan_store[s1].status = "completed" /\ scan_store[s2].status = "completed"
  /\ strace[s1].rv_at_fetch = strace[s2].rv_at_fetch

\* C12 (as claimed): the second of two smart scans run to completion in a row,
\* with no version token changed in between, queues no resource, makes no AI
\* call and completes with the result that says no changes were found.
C12_SmartTwiceQueuesNothing ==
  \A s1 \in Scans, s2 \in Scans :
    SmartTwice(s1, s2) =>
      /\ scan_store[s2].total_resources = 0
      /\ strace[s2].ai_calls = 0
      /\ scan_store[s2].results.summary =
            "No changes detected or no resources found matching filters."



\* Scan s reaches status v in this step.
Reaches(s, v) ==
  /\ s \in DOMAIN scan_store'
  /\ scan_store'[s].status = v
  /\ (s \in DOMAIN scan_store => scan_store[s].status # v)

\* C13: the committed snapshots change only in a step in which a session
\* reaches completed; in such a step the snapshot of the session's cluster is
\* replaced as a whole by the complete token map the session fetched and no
\* other cluster's snapshot changes; a step in which a session ends failed or
\* stopped changes no snapshot.
C13_SnapshotCommittedOnCompletion ==
  [][ /\ resource_snapshots' # resource_snapshots =>
           \E s \in Scans : Reaches(s, "completed")
      /\ \A s \in Scans :
           Reaches(s, "completed") =>
             resource_snapshots' =
               Put(resource_snapshots, scan_store'[s].cluster_id, strace'[s].fetched)
      /\ \A s \in Scans :
           (Reaches(s, "failed") \/ Reaches(s, "stopped")) =>
             resource_snapshots' = resource_snapshots ]_vars

\* Two sessions of the same cluster completed with different token maps, the
\* first of them with a kind filter, and the snapshot is the whole map of one
\* of them; a third outcome, a stopped session, is there too in other runs.
C13_Witness ==
  \E s1 \in Scans, s2 \in Scans :
    /\ s1 \in DOMAIN scan_store /\ s2 \in DOMAIN scan_store
    /\ scan_store[s1].status = "completed" /\ scan_store[s2].status = "completed"
    /\ scan_store[s1].filters # <<>>
    /\ strace[s1].commits = 1 /\ strace[s2].commits = 1
    /\ strace[s1].fetched # strace[s2].fetched
    /\ strace[s1].fetched # EmptyDict /\ strace[s2].fetched # EmptyDict
    /\ resource_snapshots["prod"] = strace[s1].fetched


\* The resources scan s queued for analysis, and those of them in the
\* namespaces nss.
QueuedIn(s, nss) ==
  {r.unique_id : r \in UNION {Range(slocal[s].resources_by_ns[ns]) :
                                ns \in DOMAIN slocal[s].resources_by_ns \cap nss}}

Queued(s) == QueuedIn(s, DOMAIN slocal[s].resources_by_ns)

\* C14: when the AI call of a namespace batch raises, exactly the queued
\* resources of that namespace are marked error, the resources of the other
\* namespaces are marked as their own calls ended, the scan goes on to the
\* remaining namespaces and the session does not fail.
C14_BatchErrorContained ==
  \A s \in DOMAIN scan_store :
    LET st == scan_store[s] IN
      /\ {u \in DOMAIN st.resource_status : st.resource_status[u] = "error"}
           = QueuedIn(s, strace[s].ai_raised)
      /\ strace[s].ai_raised # {} =>
           /\ st.status \in {"analyzing", "completed", "stopped"}
           /\ spc[s] = "done" /\ st.status = "completed" =>
                /\ st.analyzed_resources = Cardinality(Queued(s))
                /\ \A u \in Queued(s) \ QueuedIn(s, strace[s].ai_raised) :
                     st.resource_status[u] = "analyzed"

\* A full scan whose first namespace call raised and whose second returned an
\* issue has completed.
C14_Witness ==
  \E s \in DOMAIN scan_store :
    /\ scan_store[s].status = "completed"
    /\ strace[s].ai_raised = {"default"}
    /\ "ConfigMap/shop/cfg" \in DOMAIN scan_store[s].resource_status
    /\ scan_store[s].resource_status["ConfigMap/shop/cfg"] = "analyzed"
    /\ scan_store[s].resource_status["Deployment/default/web"] = "error"
    /\ Len(scan_store[s].results.issues) > 0

\* C15: whenever the task of a scan is suspended or has ended, the session in
\* the scans file carries the status of the session in memory.
C15_StatusPersisted ==
  \A s \in DOMAIN scan_store :
    /\ s \in DOMAIN scans_file
    /\ scans_file[s].status = scan_store[s].status

NonTerminal == {"initializing", "fetching_resources", "analyzing"}

\* C16: a restart leaves every session of the scans file in the store, failed
\* when the file had it initializing, fetching_resources or analyzing, and with
\* the status of the file when that was completed, failed or stopped.
C16_RestartFailsNonTerminal ==
  [][boots' # boots =>
       /\ DOMAIN scan_store' = DOMAIN scans_file
       /\ \A s \in DOMAIN scans_file :
            scan_store'[s].status =
              IF scans_file[s].status \in NonTerminal
                THEN "failed" ELSE scans_file[s].status]_vars

\* After a restart: one session the file held as fetching_resources is failed
\* with the restart entry last in its log, another is completed as before.
C16_Witness ==
  /\ boots = 1
  /\ \E s, t \in DOMAIN scan_store :
       /\ scans_file[s].status = "fetching_resources"
       /\ scan_store[s].status = "failed"
       /\ scan_store[s].logs[Len(scan_store[s].logs)].text
            = "Scan interrupted by system restart."
       /\ scans_file[t].status = "completed"
       /\ scan_store[t].status = "completed"

\* C17: in a log that only log_action has written to, the first entry carries
\* the all-zero sentinel as previous_hash and every later entry carries the
\* digest of the line stored before it.
C17_ChainLinked ==
  \A n \in 1..Len(audit_log) :
    audit_log[n].body.previous_hash =
      IF n = 1 THEN Sentinel ELSE Sha256(audit_log[n - 1])

\* Three entries have been appended.
C17_Witness ==
  /\ Len(audit_log) = MaxEntries
  /\ audit_log[MaxEntries].body.previous_hash = Sha256(audit_log[MaxEntries - 1])
  /\ audit_log[1].body.previous_hash = Sentinel

C19_CreateBoundedOrRaises ==
  \A w \in Workflows :
    /\ pc[w] \in {"poll", "poll_sleep"} => i[w] <= PollAttempts
    /\ proc[w] = "exited" => trace[w].create_returned = 0
    /\ trace[w].window_expired => trace[w].create_returned = 0

\* C20: destroy_shadow_env never raises to its caller: every call of it made
\* by a workflow that has ended has returned, the delete command having been
\* run after the tunnel process was dealt with.
C20_DestroyNeverRaises ==
  \A w \in Workflows :
    pc[w] = "done" => trace[w].destroy_returned = trace[w].destroy_calls

\* The listed resources that the filters and the ignored namespaces of scan s
\* leave for analysis.
Analysable(s) ==
  {r.unique_id : r \in {x \in Range(ClusterResources) :
      /\ x.unique_id \in DOMAIN strace[s].fetched
      /\ scan_store[s].filters = <<>> \/ x.kind \in Range(scan_store[s].filters)
      /\ x.namespace \notin IgnoredNamespaces}}

Classified(s) ==
  /\ spc[s] \in {"await_batch", "batch_yield", "done"}
  /\ scan_store[s].status \in {"analyzing", "completed"}

\* The only session started since the cache was cleared.
FirstSinceClear(s) ==
  /\ s \in InStore
  /\ DOMAIN scan_store # {s}
  /\ \A t \in DOMAIN scan_store \ {s} : ~scan_store[t].in_store

\* C21: a clear_cache step leaves no session to get_scan_status and list_scans
\* and no snapshot for any cluster, and the next smart scan queues every
\* listed resource that is not filtered out or ignored.
C21_ClearCacheForgets ==
  /\ [][(\E s \in InStore : s \notin InStore') =>
          /\ \A s \in Scans : get_scan_status(s)' = [id |-> 0]
          /\ list_scans' = {}
          /\ resource_snapshots' = EmptyDict]_vars
  /\ [](\A s \in Scans :
          (FirstSinceClear(s) /\ scan_store[s].type = "smart" /\ Classified(s))
            => Queued(s) = Analysable(s))

\* new keeps the entries of old in their order, without the oldest ones when
\* it is at the cap, followed by the entries appended.
KeepsNewest(old, new) ==
  \E j \in 0..Len(old) :
    /\ Len(new) >= Len(old) - j
    /\ SubSeq(new, 1, Len(old) - j) = SubSeq(old, j + 1, Len(old))
    /\ j > 0 => Len(new) = LogCap

\* C22: the log of a session never holds more than 1000 entries, also right
\* after a restart and after a stop; every step keeps the entries of the log
\* (after a restart: of the log in the scans file) in order and drops only the
\* oldest ones, when the cap is reached.
C22_LogCapped ==
  /\ [](\A s \in DOMAIN scan_store : Len(scan_store[s].logs) <= LogCap)
  /\ [][\A s \in DOMAIN scan_store \cap DOMAIN scan_store' :
          KeepsNewest(IF boots' = boots THEN scan_store[s].logs
                      ELSE scans_file[s].logs,
                      scan_store'[s].logs)]_vars

\* The number of resources scan s queued for analysis that are marked
\* analyzed so far.
AnalyzedCount(s) ==
  Cardinality({u \in Queued(s) \cap DOMAIN scan_store[s].resource_status :
                 scan_store[s].resource_status[u] = "analyzed"})

\* C23: after each namespace batch the progress of the session is
\* floor(100 * analyzed_count / total_queued), analyzed_count being the number
\* of queued resources marked analyzed so far; the progress stays in 0..100
\* and no step of a session lowers it.
C23_ProgressFromAnalyzed ==
  /\ [](\A s \in DOMAIN scan_store :
          /\ scan_store[s].progress \in 0 .. 100
          /\ spc[s] = "batch_yield" =>
               scan_store[s].progress =
                 (100 * AnalyzedCount(s)) \div Cardinality(Queued(s)))
  /\ [][\A s \in DOMAIN scan_store \cap DOMAIN scan_store' :
          scan_store'[s].id = scan_store[s].id =>
            scan_store'[s].progress >= scan_store[s].progress]_vars

\* The positions of a workflow task inside an external call: the create and
\* annotate commands, the sleeps of the two wait loops, the AI calls, the
\* settle delays, the wait for the tunnel process and the delete command.
InExternalCall(w) ==
  pc[w] \in {"await_create_cmd", "await_annotate", "poll_sleep", "connect_sleep",
             "await_remediation", "settle_shadow", "await_v_analysis",
             "settle_real", "await_final_analysis", "wait_tunnel", "await_delete"}

\* A scan task that has a step to take.
ScanReady(s) == spc[s] \notin {"idle", "done"}

\* C24: every external call of a task is a suspension point: while a workflow
\* task is inside such a call it does not hold the event loop, so a scan task
\* that is ready can take a step.
C24_ExternalCallsSuspend ==
  \A w \in Workflows, s \in Scans :
    (InExternalCall(w) /\ ScanReady(s)) => running = 0

\* C25: every resource object, also one constructed without an explicit
\* unique_id, has the unique_id "kind/namespace/name".
C25_UniqueIdIsPath ==
  built # NoResource =>
    built.unique_id = built.kind \o "/" \o built.namespace \o "/" \o built.name

\* The step in which scan s classifies the resources it fetched.
Classifies(s) ==
  /\ spc[s] = "await_fetch"
  /\ scan_store'[s].status \in {"analyzing", "completed"}

\* The token of resource u in the snapshot of cluster c (-1: none).
SnapshotToken(c, u) ==
  IF c \in DOMAIN resource_snapshots THEN Get(resource_snapshots[c], u) ELSE -1

\* Resource u was given the status `status` by the classification of st.
Marked(st, u, status) ==
  u \in DOMAIN st.resource_status /\ st.resource_status[u] = status

\* The kind passes the filter of the session (no filter passes everything).
PassesFilter(st, kind) == st.filters = <<>> \/ kind \in Range(st.filters)

\* The skip rule for a listed resource r: in a smart scan r is skipped exactly
\* when its token is the one of the cluster's snapshot, in a full scan it is
\* not skipped.
SkipRule(s, r) ==
  LET st == scan_store'[s]
      u == r.unique_id
      skipped == Marked(st, u, "analyzed") /\ u \notin Queued(s)'
  IN IF st.type = "smart"
       THEN skipped <=> strace'[s].fetched[u] = SnapshotToken(st.cluster_id, u)
       ELSE ~skipped

\* C26 as stated: in a smart scan a non-ignored resource is skipped (marked
\* analyzed, not queued for the AI) if and only if its current token equals
\* its token in the cluster's last committed snapshot; a full scan skips none.
C26_SkipIffTokenUnchanged ==
  [][\A s \in Scans : Classifies(s) =>
       \A r \in Range(ClusterResources) :
         (r.unique_id \in DOMAIN strace'[s].fetched
            /\ r.namespace \notin IgnoredNamespaces) => SkipRule(s, r)]_vars

\* C26 amended: the same for the non-ignored resources whose kind passes the
\* kind filter of the session (a resource the filter excludes is dropped
\* before the skip test: it is neither marked nor queued).
C26_SkipIffTokenUnchangedInFilter ==
  [][\A s \in Scans : Classifies(s) =>
       \A r \in Range(ClusterResources) :
         (r.unique_id \in DOMAIN strace'[s].fetched
            /\ r.namespace \notin IgnoredNamespaces
            /\ PassesFilter(scan_store'[s], r.kind)) => SkipRule(s, r)]_vars

\* A smart scan has just classified: it skipped a resource whose token is the
\* committed one and queued a resource that was edited since.
C26_Witness ==
  \E s \in DOMAIN scan_store :
    /\ scan_store[s].type = "smart"
    /\ spc[s] = "await_batch"
    /\ strace[s].ai_calls = 1
    /\ \E u, v \in DOMAIN strace[s].fetched :
         /\ Marked(scan_store[s], u, "analyzed") /\ u \notin Queued(s)
         /\ strace[s].fetched[u] = SnapshotToken(scan_store[s].cluster_id, u)
         /\ v \in Queued(s)
         /\ SnapshotToken(scan_store[s].cluster_id, v) \notin {-1, strace[s].fetched[v]}

\* Resource u is an entry of the resources_list of st.
InResourcesList(st, u) ==
  \E k \in DOMAIN st.resources_list : st.resources_list[k].unique_id = u

\* What the session shows of a listed resource u of an ignored namespace: it
\* is in resources_list with status ignored, and it is in no batch sent to the
\* AI (it is not queued and no "Analyzing" line names it).
ShownIgnored(s, u) ==
  /\ InResourcesList(scan_store[s], u)
  /\ Marked(scan_store[s], u, "ignored")
  /\ u \notin Queued(s)
  /\ \A k \in DOMAIN scan_store[s].logs :
       scan_store[s].logs[k] # [text |-> "Analyzing ", arg |-> u]

\* C27 as stated: in every session that listed the cluster, each resource of
\* an ignored namespace is in resources_list with status ignored in every
\* state from the classification on, and is never part of an AI call.
C27_IgnoredShownNotAnalyzed ==
  \A s \in DOMAIN scan_store :
    \A r \in Range(ClusterResources) :
      (r.unique_id \in DOMAIN strace[s].fetched
         /\ r.namespace \in IgnoredNamespaces) => ShownIgnored(s, r.unique_id)

\* C27 amended: the same for the resources whose kind passes the kind filter
\* of the session; one the filter excludes is not in resources_list, has no
\* status at all and is in no AI call either.
C27_IgnoredShownNotAnalyzedInFilter ==
  \A s \in DOMAIN scan_store :
    \A r \in Range(ClusterResources) :
      (r.unique_id \in DOMAIN strace[s].fetched
         /\ r.namespace \in IgnoredNamespaces) =>
        IF PassesFilter(scan_store[s], r.kind)
          THEN ShownIgnored(s, r.unique_id)
          ELSE /\ r.unique_id \notin DOMAIN scan_store[s].resource_status
               /\ r.unique_id \notin Queued(s)
               /\ ~InResourcesList(scan_store[s], r.unique_id)

\* A scan without filter completed after an AI call that raised and one that
\* returned: the resource of kube-system is shown as ignored.
C27_Witness ==
  \E s \in DOMAIN scan_store :
    /\ scan_store[s].status = "completed"
    /\ scan_store[s].filters = <<>>
    /\ strace[s].ai_calls = 2
    /\ strace[s].ai_raised # {}
    /\ ShownIgnored(s, "Pod/kube-system/dns")
    /\ \E u \in Queued(s) : Marked(scan_store[s], u, "analyzed")

\* C28: when a scan session is completed, its recorded issues are the issues
\* the namespace batches returned, each once and in batch order, so their
\* number is the sum of the numbers the batches returned.
C28_CompletedIssuesOnce ==
  \A s \in DOMAIN scan_store :
    (scan_store[s].status = "completed" /\ spc[s] = "done") =>
      scan_store[s].results.issues = Flatten(strace[s].returned, 1)

\* The session of scan s has the log line `text` with argument `arg`.
HasScanLog(st, text, arg) ==
  \E k \in DOMAIN st.logs : st.logs[k] = [text |-> text, arg |-> arg]

\* The task of scan s is over, failed, and the log names the cause.
EndsFailed(s, cause) ==
  /\ spc[s] = "done"
  /\ scan_store[s].status = "failed"
  /\ HasScanLog(scan_store[s], "Scan failed: ", cause)

\* The task of scan s found its cluster missing from the registry.
ClusterMissing(s) ==
  /\ spc[s] = "done"
  /\ scan_store[s].cluster_id \notin cluster_registry
  /\ strace[s].stop_called_at # "created"

\* C29: when the fetch of the resource set of a session runs into its
\* timeout, or its cluster is not in the registry, the task ends the session
\* as failed with a log line naming the cause (the timeout one for the
\* timeout); that step leaves the committed snapshots alone, and the session
\* has made no AI call and committed nothing.  The sessions are those of the
\* registry (clear_cache drops a session, and with it its log).
C29_FetchFailureFails ==
  /\ [][\A s \in InStore :
          LET missing == /\ spc[s] = "created" /\ spc'[s] # "created"
                         /\ ~slocal[s].cancel
                         /\ scan_store[s].cluster_id \notin cluster_registry
              timeout == strace'[s].fetch_timed_out /\ ~strace[s].fetch_timed_out
          IN /\ missing => EndsFailed(s, "Cluster not found or disconnected")'
             /\ timeout =>
                  EndsFailed(s, "Timed out fetching resources from Kubernetes API")'
             /\ (missing \/ timeout) => resource_snapshots' = resource_snapshots]_vars
  /\ [](\A s \in InStore :
          (strace[s].fetch_timed_out \/ ClusterMissing(s)) =>
            /\ strace[s].ai_calls = 0
            /\ strace[s].commits = 0
            /\ scan_store[s].resources_list = <<>>)

\* After a scan of the cluster committed a snapshot, the fetch of a second
\* scan timed out and the session ended failed.
C29_Witness ==
  \E s \in DOMAIN scan_store :
    /\ strace[s].fetch_timed_out
    /\ EndsFailed(s, "Timed out fetching resources from Kubernetes API")
    /\ "prod" \in DOMAIN resource_snapshots
    /\ resource_snapshots["prod"] # EmptyDict

\* C30: the decision of the promotion gate is a function of the summary of
\* the shadow validation alone: the real cluster is applied to exactly when
\* the summary mentions neither 'high' nor 'critical', whatever the issue list
\* returned with it, so two runs with the same summary and different issue
\* lists decide alike.
C30_GateFromSummaryAlone ==
  \A w \in Workflows :
    trace[w].gate_summary # "" =>
      \A issues \in VIssueLists :
        trace[w].gate_issues = issues =>
          (trace[w].real_apply_calls > 0) = ~MentionsSeverity(trace[w].gate_summary)

\* The validation returned a CRITICAL issue under a summary without either
\* keyword, and the manifest was applied to the real cluster.
C30_Witness ==
  \E w \in Workflows :
    /\ trace[w].gate_summary = "Issue resolved."
    /\ \E k \in DOMAIN trace[w].gate_issues :
         trace[w].gate_issues[k].severity = "CRITICAL"
    /\ trace[w].real_applied

\* The lines of the log that hold something, and the last of them.
EntryLines(log) == {k \in DOMAIN log : log[k].kind # "blank"}

LastEntryLine(log) == CHOOSE k \in EntryLines(log) : \A j \in EntryLines(log) : j <= k

\* C31: an appended entry carries the all-zero sentinel as previous_hash only
\* when the log held no entry; when the log held at least one, whatever its
\* last line is, the new entry carries the digest of that last line.
C31_SentinelOnlyWhenEmpty ==
  [][Len(audit_log') = Len(audit_log) + 1 /\ audit_log'[Len(audit_log')].kind = "json" =>
       LET previous_hash == audit_log'[Len(audit_log')].body.previous_hash
       IN IF EntryLines(audit_log) = {}
            THEN previous_hash = Sentinel
            ELSE /\ previous_hash # Sentinel
                 /\ previous_hash = Sha256(audit_log[LastEntryLine(audit_log)])]_vars

\* This step is one of session s: its record, its task or its local
\* variables change.
Acts(s) ==
  \/ spc'[s] # spc[s]
  \/ slocal'[s] # slocal[s]
  \/ s \in DOMAIN scan_store /\ scan_store'[s] # scan_store[s]

\* This step leaves the snapshot of cluster c as it is.
KeepsSnapshot(c) ==
  /\ (c \in DOMAIN resource_snapshots') = (c \in DOMAIN resource_snapshots)
  /\ c \in DOMAIN resource_snapshots => resource_snapshots'[c] = resource_snapshots[c]

\* What session s comes to when it runs alone on a cluster nobody scanned
\* before: every listed resource that is not ignored and passes the filter is
\* queued; a completed session has marked the queued resources by the outcome
\* of their own namespace call, recorded the issues its calls returned and
\* committed; the snapshot of its cluster is the token map it fetched once it
\* committed, and absent before.
AsAlone(s) ==
  LET st == scan_store[s]
      expected == {r.unique_id : r \in {x \in Range(ClusterResources) :
                     /\ x.unique_id \in DOMAIN strace[s].fetched
                     /\ x.namespace \notin IgnoredNamespaces
                     /\ PassesFilter(st, x.kind)}}
  IN /\ st.status \in {"analyzing", "completed"} /\ strace[s].ai_calls > 0 =>
          Queued(s) = expected
     /\ st.status = "completed" =>
          /\ \A u \in Queued(s) :
               st.resource_status[u] =
                 IF u \in QueuedIn(s, strace[s].ai_raised) THEN "error" ELSE "analyzed"
          /\ st.results.issues = Flatten(strace[s].returned, 1)
          /\ strace[s].commits = 1
     /\ IF strace[s].commits = 0
          THEN st.cluster_id \notin DOMAIN resource_snapshots
          ELSE /\ st.cluster_id \in DOMAIN resource_snapshots
               /\ resource_snapshots[st.cluster_id] = strace[s].fetched

\* C32: two sessions on different clusters are independent: no step of one
\* changes the record, the task or the local variables of the other, or the
\* snapshot of the other's cluster, and each session comes to what it comes
\* to when it runs alone.
C32_SessionsIndependent ==
  /\ [][\A s \in DOMAIN scan_store', t \in DOMAIN scan_store :
          (s # t /\ scan_store'[s].cluster_id # scan_store[t].cluster_id /\ Acts(s)) =>
            /\ scan_store'[t] = scan_store[t]
            /\ spc'[t] = spc[t]
            /\ slocal'[t] = slocal[t]
            /\ KeepsSnapshot(scan_store[t].cluster_id)]_vars
  /\ [](\A s \in DOMAIN scan_store : AsAlone(s))

\* A smart scan of staging was started while the scan of prod was in flight,
\* and both have completed, each with its cluster's snapshot committed.
C32_Witness ==
  /\ DOMAIN scan_store = {1, 2}
  /\ scan_store[1].status = "completed" /\ scan_store[2].status = "completed"
  /\ scan_store[2].type = "smart"
  /\ 1 \notin strace[2].done_before
  /\ strace[2].ai_calls = 2
  /\ resource_snapshots["prod"] # EmptyDict
  /\ resource_snapshots["staging"] # EmptyDict

\* ---------------------------------------------------------------------------
\* C33.  Every successful apply_manifest on the real cluster is recorded in the
\* audit chain: the log holds at least as many entries as there are workflows
\* whose real-cluster apply returned True.
RealApplies == {w \in DOMAIN workflow_store : trace[w].real_applied}

C33_AppliesAreAudited ==
  Cardinality(RealApplies) <= Cardinality(EntryLines(audit_log))

\* ---------------------------------------------------------------------------
\* C34.  A session whose status is completed or failed keeps that status under
\* every later step, stop_scan included: only a session whose task is still
\* running is moved to stopped.
Settled == {"completed", "failed"}

C34_SettledStatusStays ==
  [][\A s \in DOMAIN scan_store :
       (scan_store[s].status \in Settled /\ s \in DOMAIN scan_store') =>
         scan_store'[s].status = scan_store[s].status]_vars

\* ---------------------------------------------------------------------------
\* Scan t completed and its AI call analyzed resource u, at version token rv,
\* without raising.
AnalyzedBy(t, u, rv) ==
  /\ strace[t].commits > 0
  /\ u \in Queued(t) \ QueuedIn(t, strace[t].ai_raised)
  /\ Get(strace[t].fetched, u) = rv

\* C35.  Every resource a smart scan skips as already analyzed was analyzed
\* without error, at the version token it has now, by an earlier completed scan
\* of the same cluster: a resource earlier scans only dropped by their kind
\* filter, or only saw in a namespace whose AI call raised, is not skipped.
C35_SkippedWasAnalyzed ==
  [][\A s \in Scans : (Classifies(s) /\ scan_store'[s].type = "smart") =>
       \A u \in DOMAIN strace'[s].fetched :
         (Marked(scan_store'[s], u, "analyzed") /\ u \notin Queued(s)') =>
           \E t \in DOMAIN scan_store \ {s} :
             /\ scan_store[t].cluster_id = scan_store[s].cluster_id
             /\ AnalyzedBy(t, u, strace'[s].fetched[u])]_vars

\* ---------------------------------------------------------------------------
\* C36.  When the safety analysis of the shadow environment could not be
\* performed (analyze_context recovered the failure into a degraded result
\* with no issue), the manifest is not applied to the real cluster.
C36_DegradedAnalysisBlocks ==
  \A w \in Workflows :
    (trace[w].gate_summary \in DegradedSummaries /\ trace[w].gate_issues = <<>>) =>
      trace[w].real_apply_calls = 0

\* ---------------------------------------------------------------------------
\* create_shadow_env raised to workflow w out of its poll loop.
CreateFailures == {"VCluster connect process died unexpectedly",
                   "Timed out waiting for vcluster kubeconfig generation"}

\* C37.  After create_shadow_env has raised (the tunnel process exited, or the
\* polls ran out) and the workflow has ended, _bg_processes holds no entry for
\* that environment and the shadow cluster made by the create command is gone.
C37_FailedCreateLeavesNothing ==
  \A w \in Workflows :
    (pc[w] = "done" /\ exc[w] \in CreateFailures) =>
      /\ w \notin bg_processes
      /\ w \notin vclusters

\* ---------------------------------------------------------------------------
\* C38.  A workflow that has ended has had on_workflow_complete invoked
\* exactly once, and that call saw a terminal status (completed or failed).
C38_CallbackExactlyOnce ==
  \A w \in Workflows :
    pc[w] = "done" =>
      /\ Len(trace[w].callbacks) = 1
      /\ trace[w].callbacks[1].status \in Terminal

\* ---------------------------------------------------------------------------
\* The sessions clear_cache dropped while their task was still running.
Orphaned == {s \in DOMAIN scan_store : ~scan_store[s].in_store /\ spc[s] # "done"}

\* C39.  A scan that was in flight when the cache was cleared brings nothing
\* back: no step of its task changes the per-cluster snapshot map or puts a
\* session into the store; after a clear only a scan started after it commits
\* a snapshot or registers a session.
C39_ClearedStaysCleared ==
  [][\A s \in Orphaned : Acts(s) =>
       /\ resource_snapshots' = resource_snapshots
       /\ InStore' = InStore]_vars

\* ---------------------------------------------------------------------------
\* C40.  create_shadow_env returns a Cluster only when the kubeconfig file
\* exists and is not empty at that moment: a file that exists but is still
\* empty after the 30 polls makes the call raise.
C40_ReturnsOnlyWhenReady ==
  \A w \in Workflows :
    pc[w] = "create_returned" => DescriptorReady(descriptor[w])

====
